---------------------------- MODULE Spec2Model ----------------------------
(***************************************************************************)
(* A model of src/src/commands/dust.ts: the `dust scan` and `dust clean`   *)
(* commands (classification, ordering, selection, credential gate, batch   *)
(* and interactive processing).                                            *)
(*                                                                         *)
(* Token amounts are bigint in the source and are converted with Number()  *)
(* to IEEE-754 doubles before they are compared (dust.ts:163).  TLC's      *)
(* integers are 32 bits wide, so amounts are kept as arbitrary-precision   *)
(* naturals (little-endian sequences of 15-bit limbs) and the double       *)
(* arithmetic is modelled bit-exactly on top of them.                      *)
(***************************************************************************)
EXTENDS Integers, Sequences, FiniteSets, TLC

(***************************************************************************)
(* State                                                                   *)
(***************************************************************************)
VARIABLES
    pc,             \* where the running command is
    walletAddress,  \* the <wallet> argument
    options,        \* the command's flags
    ledger,         \* the reply of getParsedTokenAccountsByOwner
    accounts,       \* accounts: TokenAccount[] of scanDust / cleanDust
    tokensToShow,   \* scanDust: the list printed under "Token Accounts"
    toProcess,      \* cleanDust: toProcess, the `accounts` of both processors
    keyFile,        \* the key file as loadKeypair found it
    keypair,        \* the Keypair loadKeypair returned
    verified,       \* outcome of the comparison of dust.ts:408
    proceed,        \* the answer to "Proceed with all? (y/N)"
    i,              \* loop index of batchProcess / interactiveClean
    skipRemaining,  \* interactiveClean
    processAll,     \* interactiveClean
    totalClosed,
    totalRecovered,
    prompts,        \* indices at which interactiveClean asked its question
    answers,        \* the answers given, in order
    sent,           \* transactions handed to sendAndConfirmTransaction, in order
    outcomes,       \* their outcomes, in order
    exitCode,       \* -1 while the process runs
    risk            \* a call of classifyTokenRisk on its own: argument and result

vars == <<pc, walletAddress, options, ledger, accounts, tokensToShow, toProcess,
          keyFile, keypair, verified, proceed, i, skipRemaining, processAll,
          totalClosed, totalRecovered, prompts, answers, sent, outcomes,
          exitCode, risk>>


(***************************************************************************)
(* Arbitrary-precision naturals: bigint (dust.ts:65, 222, 341).            *)
(***************************************************************************)
\* A natural is the sequence of its digits in base LimbBase, least
\* significant first and without leading zeros; zero is the empty sequence.
\* Carries and borrows are found by look-ahead, not by rippling.
LimbBits == 15
LimbBase == 32768

Pow2Small(k) == CASE k = 0 -> 1 [] k = 1 -> 2 [] k = 2 -> 4 [] k = 3 -> 8
                  [] k = 4 -> 16 [] k = 5 -> 32 [] k = 6 -> 64 [] k = 7 -> 128
                  [] k = 8 -> 256 [] k = 9 -> 512 [] k = 10 -> 1024
                  [] k = 11 -> 2048 [] k = 12 -> 4096 [] k = 13 -> 8192
                  [] k = 14 -> 16384 [] OTHER -> 32768

Pow10Small(k) == CASE k = 0 -> 1 [] k = 1 -> 10 [] k = 2 -> 100 [] k = 3 -> 1000
                   [] OTHER -> 10000

Least(x, y) == IF x < y THEN x ELSE y
Greatest(x, y) == IF x < y THEN y ELSE x

\* the position of the leading non-zero digit, 0 when there is none
BigTop(a) ==
    IF \A j \in 1..Len(a) : a[j] = 0 THEN 0
    ELSE CHOOSE j \in 1..Len(a) : a[j] # 0 /\ \A m \in (j + 1)..Len(a) : a[m] = 0

\* a without its leading zeros
BigNorm(a) == SubSeq(a, 1, BigTop(a))

\* n < 2^31 as a natural
BigFromNat(n) ==
    BigNorm(<<n % LimbBase, (n \div LimbBase) % LimbBase, n \div (LimbBase * LimbBase)>>)

BigZero == <<>>
BigOne == <<1>>

BigLimb(a, p) == IF p >= 1 /\ p <= Len(a) THEN a[p] ELSE 0

BigCmpAt(a, b, j) == IF a[j] < b[j] THEN -1 ELSE 1

\* -1, 0 or 1 as a < b, a = b, a > b: the lengths decide, and then the
\* leading digit in which the two differ
BigCmp(a, b) ==
    IF Len(a) < Len(b) THEN -1
    ELSE IF Len(a) > Len(b) THEN 1
    ELSE IF \A j \in 1..Len(a) : a[j] = b[j] THEN 0
    ELSE BigCmpAt(a, b, CHOOSE j \in 1..Len(a) :
                            a[j] # b[j] /\ \A m \in (j + 1)..Len(a) : a[m] = b[m])

BigLt(a, b) == BigCmp(a, b) = -1
BigLe(a, b) == BigCmp(a, b) # 1

\* the carry into digit p of a + b: some lower digit overflows and every
\* digit between that one and p is full
BigCarry(a, b, p) ==
    IF \E j \in 1..(p - 1) :
          /\ BigLimb(a, j) + BigLimb(b, j) >= LimbBase
          /\ \A m \in (j + 1)..(p - 1) : BigLimb(a, m) + BigLimb(b, m) = LimbBase - 1
    THEN 1 ELSE 0

BigAdd(a, b) ==
    BigNorm([p \in 1..(Greatest(Len(a), Len(b)) + 1) |->
                (BigLimb(a, p) + BigLimb(b, p) + BigCarry(a, b, p)) % LimbBase])

\* the borrow from digit p of a - b
BigBorrow(a, b, p) ==
    IF \E j \in 1..(p - 1) :
          /\ a[j] < BigLimb(b, j)
          /\ \A m \in (j + 1)..(p - 1) : a[m] = BigLimb(b, m)
    THEN 1 ELSE 0

\* a - b for a >= b
BigSub(a, b) ==
    BigNorm([p \in 1..Len(a) |->
                (a[p] - BigLimb(b, p) - BigBorrow(a, b, p) + LimbBase) % LimbBase])

\* a * k for 0 <= k < LimbBase: the low halves of the digit products, plus
\* their high halves one digit up
BigMulSmall(a, k) ==
    BigAdd([j \in 1..Len(a) |-> (a[j] * k) % LimbBase],
           <<0>> \o [j \in 1..Len(a) |-> (a[j] * k) \div LimbBase])

\* a * 2^s for 0 <= s < LimbBits
BigShlBits(a, s) ==
    BigNorm([j \in 1..(Len(a) + 1) |->
                (BigLimb(a, j) % Pow2Small(LimbBits - s)) * Pow2Small(s)
                + BigLimb(a, j - 1) \div Pow2Small(LimbBits - s)])

\* a * 2^n
BigShl(a, n) ==
    IF a = <<>> THEN <<>>
    ELSE [j \in 1..(n \div LimbBits) |-> 0] \o BigShlBits(a, n % LimbBits)

\* the number of bits of n < LimbBase
BitLenSmall(n) ==
    CHOOSE k \in 0..LimbBits : n < Pow2Small(k) /\ (k = 0 \/ n >= Pow2Small(k - 1))

BigBitLen(a) ==
    IF a = <<>> THEN 0 ELSE (Len(a) - 1) * LimbBits + BitLenSmall(a[Len(a)])

BigIsOdd(a) == a # <<>> /\ a[1] % 2 = 1

\* a div 2^n
BigShr(a, n) ==
    LET drop == n \div LimbBits
        s == n % LimbBits
        len == Len(a) - drop
    IN  IF len <= 0 THEN <<>>
        ELSE BigNorm([j \in 1..len |->
                 (a[j + drop] \div Pow2Small(s))
                 + (BigLimb(a, j + drop + 1) % Pow2Small(s)) * Pow2Small(LimbBits - s)])

\* The largest digit d <= guess with b * d <= r
RECURSIVE BigDigit(_, _, _)
BigDigit(r, b, guess) ==
    IF BigLt(r, BigMulSmall(b, guess)) THEN BigDigit(r, b, guess - 1) ELSE guess

\* The quotient digit guessed from the two leading limbs of r and the leading
\* limb of b: never too small, and at most two too large when the leading
\* limb of b is at least LimbBase / 2.
BigGuess(r, b) ==
    Least((BigLimb(r, Len(b) + 1) * LimbBase + BigLimb(r, Len(b))) \div b[Len(b)],
          LimbBase - 1)

\* Long division, one limb of the dividend a at a time from limb l down to
\* limb 1; q holds the quotient digits found so far and rem the remainder.
\* <<quotient, remainder>>.
RECURSIVE BigDivLimbs(_, _, _, _, _)
BigDivSub(a, b, l, q, r, digit) ==
    BigDivLimbs(a, b, l - 1, <<digit>> \o q, BigSub(r, BigMulSmall(b, digit)))

BigDivDigit(a, b, l, q, r) ==
    IF BigLt(r, b) THEN BigDivLimbs(a, b, l - 1, <<0>> \o q, r)
    ELSE BigDivSub(a, b, l, q, r, BigDigit(r, b, BigGuess(r, b)))

BigDivLimbs(a, b, l, q, rem) ==
    IF l <= 0 THEN <<BigNorm(q), rem>>
    ELSE BigDivDigit(a, b, l, q, BigNorm(<<a[l]>> \o rem))

\* the leading Len(b) - 1 limbs of a are less than b: the division starts
\* with them as the remainder
BigDivAll(a, b) ==
    IF Len(a) < Len(b) THEN <<BigZero, a>>
    ELSE BigDivLimbs(a, b, Len(a) - Len(b) + 1, <<>>,
                     SubSeq(a, Len(a) - Len(b) + 2, Len(a)))

BigDivUnscale(qr, s) == <<qr[1], BigShr(qr[2], s)>>

\* a and b scaled by 2^s, which brings the leading limb of b to LimbBase / 2
\* or more and leaves the quotient as it is
BigDivScaled(a, b, s) == BigDivUnscale(BigDivAll(BigShl(a, s), BigShl(b, s)), s)

BigQuotRemPow2(a, q, n) == <<q, BigSub(a, BigShl(q, n))>>

BigDivModPow2(a, b, n) ==
    IF b = BigShl(BigOne, n) THEN BigQuotRemPow2(a, BigShr(a, n), n)
    ELSE BigDivScaled(a, b, LimbBits - BitLenSmall(b[Len(b)]))

\* <<a div b, a mod b>> for b > 0; a divisor that is a power of two is a shift
BigDivMod(a, b) == BigDivModPow2(a, b, BigBitLen(b) - 1)

\* 10^d
RECURSIVE BigPow10(_)
BigPow10(d) ==
    IF d <= 4 THEN <<Pow10Small(d)>> ELSE BigMulSmall(BigPow10(d - 4), 10000)


(***************************************************************************)
(* IEEE-754 binary64 ("number").  A double is zero or m * 2^e with         *)
(* 2^52 <= m < 2^53.  Every operation returns the exact result rounded to  *)
(* nearest, ties to even.  The amounts and scales that occur stay far      *)
(* inside the normal range, so overflow and subnormals do not arise.       *)
(***************************************************************************)
MantissaBits == 53

DoubleZero == [m |-> <<>>, e |-> 0]

\* rounding up can carry into a 54th bit
DoublePack(q, e) ==
    IF BigBitLen(q) > MantissaBits
    THEN [m |-> BigShl(BigOne, MantissaBits - 1), e |-> e + 1]
    ELSE [m |-> q, e |-> e]

\* c compares twice the remainder with the divisor: round up above the half,
\* and on the half when the quotient is odd
DoubleRoundUp(q, c, e) ==
    IF c = 1 \/ (c = 0 /\ BigIsOdd(q)) THEN DoublePack(BigAdd(q, BigOne), e)
    ELSE [m |-> q, e |-> e]

DoubleRoundTie(qr, D, e) ==
    IF qr[2] = <<>> THEN [m |-> qr[1], e |-> e]
    ELSE DoubleRoundUp(qr[1], BigCmp(BigShl(qr[2], 1), D), e)

DoubleRoundDiv(N, D, e) == DoubleRoundTie(BigDivMod(N, D), D, e)

\* num / den = (N / D) * 2^e with 2^52 <= N / D < 2^53
DoubleRoundAt(num, den, e) ==
    IF e >= 0 THEN DoubleRoundDiv(num, BigShl(den, e), e)
    ELSE DoubleRoundDiv(BigShl(num, -e), den, e)

\* floor(log2(num / den)), which is L or L - 1 for L the difference of the bit lengths
DoubleExponent(num, den, L) ==
    IF (IF L >= 0 THEN BigLe(BigShl(den, L), num) ELSE BigLe(den, BigShl(num, -L)))
    THEN L ELSE L - 1

\* The double nearest to num / den (den > 0), ties to even.
DoubleRound(num, den) ==
    IF num = <<>> THEN DoubleZero
    ELSE DoubleRoundAt(num, den,
             DoubleExponent(num, den, BigBitLen(num) - BigBitLen(den))
             - (MantissaBits - 1))

DoubleScale(x, k) == [m |-> x.m, e |-> x.e + k]

\* Number(x) for a bigint x (dust.ts:163)
NumberOf(x) == DoubleRound(x, BigOne)

\* Math.pow(10, d) (dust.ts:163)
MathPow10(d) == DoubleRound(BigPow10(d), BigOne)

\* x / y on doubles, y > 0: the quotient of the mantissas rounded, scaled by
\* the difference of the exponents (scaling by a power of two is exact)
DoubleDiv(x, y) ==
    IF x.m = <<>> THEN DoubleZero
    ELSE DoubleScale(DoubleRound(x.m, y.m), x.e - y.e)

\* x < y on non-negative doubles
DoubleLt(x, y) ==
    IF y.m = <<>> THEN FALSE
    ELSE IF x.m = <<>> THEN TRUE
    ELSE IF x.e # y.e THEN x.e < y.e
    ELSE BigLt(x.m, y.m)

\* the literals 0.0001 (dust.ts:164) and 1 (dust.ts:174)
DustThreshold == DoubleRound(BigOne, BigPow10(4))
DoubleOne == DoubleRound(BigOne, BigOne)


DoubleAddAt(x, y, lo) ==
    DoubleScale(DoubleRound(BigAdd(BigShl(x.m, x.e - lo), BigShl(y.m, y.e - lo)),
                            BigOne), lo)

\* x + y on non-negative doubles
DoubleAdd(x, y) ==
    IF x.m = <<>> THEN y
    ELSE IF y.m = <<>> THEN x
    ELSE DoubleAddAt(x, y, Least(x.e, y.e))

(***************************************************************************)
(* Strings: String.prototype.toLowerCase and String.prototype.includes.    *)
(***************************************************************************)
UpperChars == "ABCDEFGHIJKLMNOPQRSTUVWXYZ"
LowerChars == "abcdefghijklmnopqrstuvwxyz"

LowerChar(c) ==
    IF \E k \in 1..Len(UpperChars) : SubSeq(UpperChars, k, k) = c
    THEN LET k == CHOOSE k \in 1..Len(UpperChars) : SubSeq(UpperChars, k, k) = c
         IN  SubSeq(LowerChars, k, k)
    ELSE c

RECURSIVE toLowerCase(_)
toLowerCase(s) ==
    IF Len(s) = 0 THEN ""
    ELSE LowerChar(SubSeq(s, 1, 1)) \o toLowerCase(SubSeq(s, 2, Len(s)))

includes(s, t) ==
    \E k \in 0..(Len(s) - Len(t)) : SubSeq(s, k + 1, k + Len(t)) = t

\* String.prototype.trim, for the blanks that pad a name
RECURSIVE trim(_)
trim(s) ==
    IF Len(s) = 0 THEN ""
    ELSE IF SubSeq(s, 1, 1) = " " THEN trim(SubSeq(s, 2, Len(s)))
    ELSE IF SubSeq(s, Len(s), Len(s)) = " " THEN trim(SubSeq(s, 1, Len(s) - 1))
    ELSE s

(***************************************************************************)
(* Constants of dust.ts                                                    *)
(***************************************************************************)
RENT_EXEMPT_LAMPORTS == 2039280
SPAM_INDICATORS == <<"airdrop", "free", "claim", "reward", "bonus", "gift",
                     "winner", "congratulation", "lucky", "prize">>
batchSize == 5
MetadataLimit == 100

\* interface TokenMetadata; an absent one (undefined) has present = FALSE
NoMetadata == [present |-> FALSE, name |-> "", symbol |-> ""]

(***************************************************************************)
(* classifyTokenRisk (dust.ts:148-179)                                     *)
(***************************************************************************)
HasSpamIndicator(name, symbol) ==
    \E k \in 1..Len(SPAM_INDICATORS) :
        includes(name, SPAM_INDICATORS[k]) \/ includes(symbol, SPAM_INDICATORS[k])

\* the rules after the spam check (dust.ts:162-178), balance being the
\* const of dust.ts:163
classifyBalance(account, balance) ==
    IF DoubleLt(DoubleZero, balance) /\ DoubleLt(balance, DustThreshold)
    THEN [level |-> "HIGH", reason |-> "Micro balance (likely tracking dust)"]
    ELSE IF account.balance = BigZero
    THEN [level |-> "LOW", reason |-> "Empty account - safe to close"]
    ELSE IF DoubleLt(balance, DoubleOne)
    THEN [level |-> "MEDIUM", reason |-> "Small balance - review before closing"]
    ELSE [level |-> "UNKNOWN", reason |-> "Unable to classify"]

classifyTokenRisk(account, metadata) ==
    IF HasSpamIndicator(IF metadata.present THEN toLowerCase(metadata.name) ELSE "",
                        IF metadata.present THEN toLowerCase(metadata.symbol) ELSE "")
    THEN [level |-> "HIGH", reason |-> "Suspicious name (potential scam/airdrop)"]
    ELSE classifyBalance(account,
             DoubleDiv(NumberOf(account.balance), MathPow10(account.decimals)))


(***************************************************************************)
(* The environment: what the ledger, the metadata service, the key file    *)
(* and the operator can present to the program.                            *)
(***************************************************************************)
MaxAccounts == 2          \* token accounts in a `clean` run
MaxScanAccounts == 4      \* token accounts in a `scan` run
MaxBatchAccounts == 13    \* holdings handed to batchProcess
MaxInteractive == 4       \* holdings handed to interactiveClean

\* Token accounts the ledger can report (info.mint, info.tokenAmount.amount,
\* info.tokenAmount.decimals of dust.ts:221-223), one per kind of holding.
LedgerKinds == <<
    [mint |-> "USDC", amount |-> BigZero,             decimals |-> 6],
    [mint |-> "FREE", amount |-> BigZero,             decimals |-> 9],
    [mint |-> "USDC", amount |-> BigFromNat(1),       decimals |-> 6],
    [mint |-> "USDC", amount |-> BigFromNat(500000),  decimals |-> 6],
    [mint |-> "USDC", amount |-> BigFromNat(2000000), decimals |-> 6],
    [mint |-> "NEW",  amount |-> BigFromNat(500000),  decimals |-> 6] >>

KindEmpty == 1
KindSpam == 2
KindDust == 3
\* a holding of a mint the metadata service has no item for
KindUnlisted == 6
\* the kinds the replies to the runs over short ledgers are drawn from
Kinds == (1..Len(LedgerKinds)) \ {KindUnlisted}

\* What the metadata service holds for a mint (the items of dust.ts:108-123);
\* "" is a field the item does not have.  A mint outside the domain is
\* missing from the reply.
ServiceItems ==
    [mint \in {"USDC", "FREE"} |->
        IF mint = "USDC"
        THEN [account |-> mint, onChainName |-> "USD Coin", onChainSymbol |-> "USDC",
              legacyName |-> "", legacySymbol |-> ""]
        ELSE [account |-> mint, onChainName |-> "", onChainSymbol |-> "",
              legacyName |-> " FREE Airdrop ", legacySymbol |-> "GIFT"]]

\* Every sequence over S of length at most n
SeqsUpTo(S, n) == UNION {[1..m -> S] : m \in 0..n}

\* a reply of connection.getParsedTokenAccountsByOwner: a list of accounts
\* (pubkey is the position, kind indexes LedgerKinds), or a failure
LedgerReplies(n) ==
    {[ok |-> FALSE, value |-> <<>>]}
    \cup {[ok |-> TRUE, value |-> [j \in 1..Len(ks) |-> [pubkey |-> j, kind |-> ks[j]]]] :
            ks \in SeqsUpTo(Kinds, n)}

Addresses == {"W1", "W2"}
WalletInputs == {"W1", "not-an-address"}

\* The file at options.keypair: absent, or holding a secret key as a JSON
\* array or as a base58 string, or something that is neither.
KeyFiles == {
    [exists |-> FALSE, encoding |-> "none",   publicKey |-> ""],
    [exists |-> TRUE,  encoding |-> "none",   publicKey |-> ""],
    [exists |-> TRUE,  encoding |-> "json",   publicKey |-> "W1"],
    [exists |-> TRUE,  encoding |-> "base58", publicKey |-> "W1"],
    [exists |-> TRUE,  encoding |-> "json",   publicKey |-> "W2"] }

\* what the operator may type at a prompt
Answers == {"y", "YES", "a", "All", "q", "quit", "n"}
ConfirmAnswers == {"y", "Y", "yes", "n", ""}
Outcomes == {"confirmed", "failed"}

(***************************************************************************)
(* fetchTokenMetadata (dust.ts:95-145): the map from mint to metadata.     *)
(* responseOk is FALSE when the request throws or the reply is not ok.     *)
(***************************************************************************)
Or(a, b) == IF a # "" THEN a ELSE b

ItemMetadata(item) ==
    [present |-> TRUE,
     name |-> trim(Or(Or(item.onChainName, item.legacyName), "Unknown Token")),
     symbol |-> trim(Or(Or(item.onChainSymbol, item.legacySymbol), "???"))]

\* A fault to tell the limit of a request by: every mint is asked for.
fetchTokenMetadata_NoLimit(mints, responseOk) ==
    IF Len(mints) = 0 \/ ~responseOk THEN [m \in {} |-> NoMetadata]
    ELSE LET asked == {mints[j] : j \in 1..Len(mints)}
         IN  [m \in asked \cap DOMAIN ServiceItems |-> ItemMetadata(ServiceItems[m])]

fetchTokenMetadata(mints, responseOk) ==
    IF Len(mints) = 0 \/ ~responseOk THEN [m \in {} |-> NoMetadata]
    ELSE LET asked == {mints[j] : j \in 1..(IF Len(mints) < MetadataLimit
                                            THEN Len(mints) ELSE MetadataLimit)}
         IN  [m \in asked \cap DOMAIN ServiceItems |-> ItemMetadata(ServiceItems[m])]

\* metadataMap.get(mint)
MapGet(metadataMap, mint) ==
    IF mint \in DOMAIN metadataMap THEN metadataMap[mint] ELSE NoMetadata

\* the object returned by the callback of tokenAccounts.value.map
TokenRecord(raw, info, metadata, level) ==
    [pubkey |-> raw.pubkey, mint |-> info.mint, balance |-> info.amount,
     decimals |-> info.decimals, isCloseable |-> info.amount = BigZero,
     metadata |-> metadata, riskLevel |-> level.level, riskReason |-> level.reason]

\* classifyTokenRisk is a pure function of (balance, decimals, metadata): its
\* value for each kind of holding, with and without the service's metadata,
\* is computed once here and looked up by the runs.
RiskTable ==
    {[kind |-> k, present |-> present,
      risk |-> classifyTokenRisk(
                  [mint |-> LedgerKinds[k].mint, balance |-> LedgerKinds[k].amount,
                   decimals |-> LedgerKinds[k].decimals],
                  IF present /\ LedgerKinds[k].mint \in DOMAIN ServiceItems
                  THEN ItemMetadata(ServiceItems[LedgerKinds[k].mint]) ELSE NoMetadata)] :
       k \in 1..Len(LedgerKinds), present \in BOOLEAN}

RiskOf(k, present) ==
    (CHOOSE row \in RiskTable : row.kind = k /\ row.present = present).risk

\* the callback of tokenAccounts.value.map (dust.ts:220-237, 339-356)
TokenAccount(raw, metadataMap) ==
    TokenRecord(raw, LedgerKinds[raw.kind],
                MapGet(metadataMap, LedgerKinds[raw.kind].mint),
                RiskOf(raw.kind, MapGet(metadataMap, LedgerKinds[raw.kind].mint).present))

BuildAccounts(value, responseOk) ==
    LET mints == [j \in 1..Len(value) |-> LedgerKinds[value[j].kind].mint]
        metadataMap == fetchTokenMetadata(mints, responseOk)
    IN  [j \in 1..Len(value) |-> TokenAccount(value[j], metadataMap)]

NoKeyFile == [exists |-> FALSE, encoding |-> "unread", publicKey |-> ""]
NoKeypair == [loaded |-> FALSE, publicKey |-> ""]
NoRisk == [returned |-> FALSE,
           account |-> [mint |-> "", balance |-> BigZero, decimals |-> 0],
           metadata |-> NoMetadata, level |-> "", reason |-> ""]
NoOptions == [keypair |-> FALSE, yes |-> FALSE, interactive |-> FALSE,
              dryRun |-> FALSE, burn |-> FALSE, showAll |-> FALSE]

\* RENT_EXEMPT_LAMPORTS / 1e9 (dust.ts:564)
RentSol == DoubleDiv(NumberOf(BigFromNat(RENT_EXEMPT_LAMPORTS)), NumberOf(BigPow10(9)))

\* (batch.length * RENT_EXEMPT_LAMPORTS) / 1e9 (dust.ts:632), computed once
\* for each batch.length
BatchRentTable ==
    {[length |-> n,
      sol |-> DoubleDiv(NumberOf(BigFromNat(n * RENT_EXEMPT_LAMPORTS)),
                        NumberOf(BigPow10(9)))] : n \in 1..batchSize}

BatchRentSol(n) == (CHOOSE row \in BatchRentTable : row.length = n).sol

\* the locals of a processor before its loop (dust.ts:475-478, 592-594), with
\* nothing asked, sent or classified yet
FreshRun ==
    /\ i = 0
    /\ skipRemaining = FALSE
    /\ processAll = FALSE
    /\ totalClosed = 0
    /\ totalRecovered = DoubleZero
    /\ prompts = <<>>
    /\ answers = <<>>
    /\ sent = <<>>
    /\ outcomes = <<>>
    /\ exitCode = -1
    /\ tokensToShow = <<>>
    /\ risk = NoRisk

\* the values every command starts from
Fresh ==
    /\ ledger = [ok |-> FALSE, value |-> <<>>]
    /\ accounts = <<>>
    /\ toProcess = <<>>
    /\ keyFile = NoKeyFile
    /\ keypair = NoKeypair
    /\ verified = "no"
    /\ proceed = [asked |-> FALSE, answer |-> ""]
    /\ FreshRun

\* A fault to tell the exit status by: the process ends with status 0
\* whatever happened.
Exit_StatusZero(code) ==
    /\ pc' = IF code = 0 THEN "done" ELSE "exit"
    /\ exitCode' = 0

\* process.exit(code), or the action's return (code 0)
Exit(code) ==
    /\ pc' = IF code = 0 THEN "done" ELSE "exit"
    /\ exitCode' = code

(***************************************************************************)
(* Instructions and transactions (dust.ts:538-559, 604-627)                *)
(***************************************************************************)
createBurnInstruction(account, mint, owner, amount) ==
    [op |-> "burn", account |-> account, mint |-> mint, owner |-> owner,
     amount |-> amount, destination |-> ""]

createCloseAccountInstruction(account, destination, authority) ==
    [op |-> "close", account |-> account, mint |-> "", owner |-> authority,
     amount |-> BigZero, destination |-> destination]

\* A fault to tell the instruction sequence by: the account is closed first
\* and its balance burned afterwards.
AccountInstructions_CloseFirst(account, kp) ==
    <<createCloseAccountInstruction(account.pubkey, kp.publicKey, kp.publicKey)>>
    \o (IF account.balance # BigZero
        THEN <<createBurnInstruction(account.pubkey, account.mint, kp.publicKey,
                                     account.balance)>>
        ELSE <<>>)

\* the instructions added for one account
AccountInstructions(account, kp) ==
    (IF account.balance # BigZero
     THEN <<createBurnInstruction(account.pubkey, account.mint, kp.publicKey,
                                  account.balance)>>
     ELSE <<>>)
    \o <<createCloseAccountInstruction(account.pubkey, kp.publicKey, kp.publicKey)>>

RECURSIVE BatchInstructions(_, _)
BatchInstructions(batch, kp) ==
    IF batch = <<>> THEN <<>>
    ELSE AccountInstructions(Head(batch), kp) \o BatchInstructions(Tail(batch), kp)

\* A fault to tell the partition by: a slice that leaves out its last element.
Slice_Short(seq, from, to) ==
    SubSeq(seq, from + 1, (IF to < Len(seq) THEN to ELSE Len(seq)) - 1)

\* accounts.slice(from, to), 0-based, to exclusive
Slice(seq, from, to) ==
    SubSeq(seq, from + 1, IF to < Len(seq) THEN to ELSE Len(seq))

Pubkeys(batch) == [j \in 1..Len(batch) |-> batch[j].pubkey]

\* a Transaction handed to sendAndConfirmTransaction
Transaction(batch, kp) ==
    [accounts |-> Pubkeys(batch), instructions |-> BatchInstructions(batch, kp),
     signer |-> kp.publicKey]

(***************************************************************************)
(* loadKeypair (dust.ts:649-675)                                           *)
(***************************************************************************)
\* A fault to tell the format failure by: a file in neither encoding is
\* taken for a key.
loadKeypair_AnyContent(file) ==
    IF ~file.exists
    THEN [threw |-> TRUE, error |-> "Keypair file not found", publicKey |-> ""]
    ELSE [threw |-> FALSE, error |-> "", publicKey |-> "W1"]

loadKeypair(file) ==
    IF ~file.exists
    THEN [threw |-> TRUE, error |-> "Keypair file not found", publicKey |-> ""]
    ELSE IF file.encoding = "json"
    THEN [threw |-> FALSE, error |-> "", publicKey |-> file.publicKey]
    ELSE IF file.encoding = "base58"
    THEN [threw |-> FALSE, error |-> "", publicKey |-> file.publicKey]
    ELSE [threw |-> TRUE, error |-> "Invalid keypair format", publicKey |-> ""]

(***************************************************************************)
(* cleanDust (dust.ts:309-454)                                             *)
(***************************************************************************)
IsCloseable(a) == a.isCloseable
\* A fault to tell the burnable filter by: every account with a balance.
IsBurnable_Any(a) == ~a.isCloseable

\* A fault to tell the two filters apart by: burnable by the risk level alone.
IsBurnable_RiskOnly(a) == a.riskLevel = "HIGH" \/ a.riskLevel = "MEDIUM"

IsBurnable(a) == ~a.isCloseable /\ (a.riskLevel = "HIGH" \/ a.riskLevel = "MEDIUM")

Closeable(accts) == SelectSeq(accts, IsCloseable)
Burnable(accts, burn) == IF burn THEN SelectSeq(accts, IsBurnable) ELSE <<>>
ToProcess(accts, burn) == Closeable(accts) \o Burnable(accts, burn)

runVars == <<i, skipRemaining, processAll, totalClosed, totalRecovered,
             prompts, answers, sent, outcomes>>
credVars == <<keyFile, keypair, verified, proceed>>

\* new PublicKey(walletAddress) and the ledger query (dust.ts:322-329); a
\* throw is caught at dust.ts:449 and ends the process with status 1
cleanDust_Query ==
    /\ pc = "clean_query"
    /\ IF walletAddress \notin Addresses
       THEN Exit(1) /\ UNCHANGED ledger
       ELSE \E reply \in LedgerReplies(MaxAccounts) :
               /\ ledger' = reply
               /\ IF reply.ok THEN pc' = "clean_metadata" /\ UNCHANGED exitCode
                  ELSE Exit(1)
    /\ UNCHANGED <<walletAddress, options, accounts, tokensToShow, toProcess,
                   credVars, runVars, risk>>

\* fetchTokenMetadata and the account list (dust.ts:331-356)
cleanDust_Metadata ==
    /\ pc = "clean_metadata"
    /\ \E responseOk \in BOOLEAN : accounts' = BuildAccounts(ledger.value, responseOk)
    /\ pc' = "clean_select"
    /\ UNCHANGED <<walletAddress, options, ledger, tokensToShow, toProcess,
                   credVars, runVars, exitCode, risk>>

\* A fault to tell the dry run's selection by: a dry run lists every account.
cleanDust_Select_DryRunAll ==
    /\ pc = "clean_select"
    /\ toProcess' = IF options.dryRun THEN accounts ELSE ToProcess(accounts, options.burn)
    /\ IF toProcess' = <<>> THEN Exit(0)
       ELSE pc' = "clean_dryrun" /\ UNCHANGED exitCode
    /\ UNCHANGED <<walletAddress, options, ledger, accounts, tokensToShow,
                   credVars, runVars, risk>>

\* closeable, burnable, toProcess and the empty case (dust.ts:358-369)
cleanDust_Select ==
    /\ pc = "clean_select"
    /\ toProcess' = ToProcess(accounts, options.burn)
    /\ IF toProcess' = <<>> THEN Exit(0)
       ELSE pc' = "clean_dryrun" /\ UNCHANGED exitCode
    /\ UNCHANGED <<walletAddress, options, ledger, accounts, tokensToShow,
                   credVars, runVars, risk>>

\* A fault to tell the dry run by: options.dryRun is not looked at.
cleanDust_DryRun_Ignored ==
    /\ pc = "clean_dryrun"
    /\ pc' = "clean_keypair"
    /\ UNCHANGED <<walletAddress, options, ledger, accounts, tokensToShow,
                   toProcess, credVars, runVars, exitCode, risk>>

\* the dry run (dust.ts:382-396)
cleanDust_DryRun ==
    /\ pc = "clean_dryrun"
    /\ IF options.dryRun THEN Exit(0)
       ELSE pc' = "clean_keypair" /\ UNCHANGED exitCode
    /\ UNCHANGED <<walletAddress, options, ledger, accounts, tokensToShow,
                   toProcess, credVars, runVars, risk>>

\* options.keypair and loadKeypair (dust.ts:398-405); a throw of loadKeypair
\* is caught at dust.ts:449
cleanDust_LoadKeypair ==
    /\ pc = "clean_keypair"
    /\ IF ~options.keypair
       THEN Exit(1) /\ UNCHANGED <<keyFile, keypair>>
       ELSE \E file \in KeyFiles :
               LET loaded == loadKeypair(file)
               IN  /\ keyFile' = file
                   /\ IF loaded.threw
                      THEN Exit(1) /\ UNCHANGED keypair
                      ELSE /\ keypair' = [loaded |-> TRUE, publicKey |-> loaded.publicKey]
                           /\ pc' = "clean_verify"
                           /\ UNCHANGED exitCode
    /\ UNCHANGED <<walletAddress, options, ledger, accounts, tokensToShow,
                   toProcess, verified, proceed, runVars, risk>>

\* A fault to tell the identity gate by: the comparison is made and its
\* outcome ignored.
cleanDust_Verify_Ungated ==
    /\ pc = "clean_verify"
    /\ verified' = IF keypair.publicKey # walletAddress THEN "mismatch" ELSE "match"
    /\ pc' = "clean_mode"
    /\ UNCHANGED <<walletAddress, options, ledger, accounts, tokensToShow,
                   toProcess, keyFile, keypair, proceed, runVars, exitCode, risk>>

\* keypair.publicKey.toString() !== walletAddress (dust.ts:407-416)
cleanDust_Verify ==
    /\ pc = "clean_verify"
    /\ IF keypair.publicKey # walletAddress
       THEN verified' = "mismatch" /\ Exit(1)
       ELSE verified' = "match" /\ pc' = "clean_mode" /\ UNCHANGED exitCode
    /\ UNCHANGED <<walletAddress, options, ledger, accounts, tokensToShow,
                   toProcess, keyFile, keypair, proceed, runVars, risk>>

\* the choice of processor (dust.ts:418-425, 447)
cleanDust_Mode ==
    /\ pc = "clean_mode"
    /\ pc' = IF options.interactive THEN "inter_loop"
             ELSE IF ~options.yes THEN "clean_confirm"
             ELSE "batch_loop"
    /\ UNCHANGED <<walletAddress, options, ledger, accounts, tokensToShow,
                   toProcess, credVars, runVars, exitCode, risk>>

\* "Proceed with all? (y/N)" (dust.ts:426-444)
\* A fault to tell the confirmation by: the word yes is taken as well.
cleanDust_Confirm_YesWord ==
    /\ pc = "clean_confirm"
    /\ \E answer \in ConfirmAnswers :
          /\ proceed' = [asked |-> TRUE, answer |-> answer]
          /\ IF toLowerCase(answer) # "y" /\ toLowerCase(answer) # "yes" THEN Exit(0)
             ELSE pc' = "batch_loop" /\ UNCHANGED exitCode
    /\ UNCHANGED <<walletAddress, options, ledger, accounts, tokensToShow,
                   toProcess, keyFile, keypair, verified, runVars, risk>>

cleanDust_Confirm ==
    /\ pc = "clean_confirm"
    /\ \E answer \in ConfirmAnswers :
          /\ proceed' = [asked |-> TRUE, answer |-> answer]
          /\ IF toLowerCase(answer) # "y" THEN Exit(0)
             ELSE pc' = "batch_loop" /\ UNCHANGED exitCode
    /\ UNCHANGED <<walletAddress, options, ledger, accounts, tokensToShow,
                   toProcess, keyFile, keypair, verified, runVars, risk>>

(***************************************************************************)
(* batchProcess (dust.ts:586-647)                                          *)
(***************************************************************************)
\* A fault to tell the await by: the batch is handed over and the loop goes
\* on to the next one without waiting for the outcome.
batchProcess_Send_NoAwait ==
    /\ pc = "batch_loop"
    /\ i < Len(toProcess)
    /\ LET batch == Slice(toProcess, i, i + batchSize)
       IN  sent' = Append(sent, Transaction(batch, keypair))
    /\ i' = i + batchSize
    /\ UNCHANGED <<pc, walletAddress, options, ledger, accounts, tokensToShow,
                   toProcess, credVars, skipRemaining, processAll, totalClosed,
                   totalRecovered, prompts, answers, outcomes, exitCode, risk>>

\* one pass of the loop up to the await: the batch and its transaction
batchProcess_Send ==
    /\ pc = "batch_loop"
    /\ i < Len(toProcess)
    /\ LET batch == Slice(toProcess, i, i + batchSize)
       IN  sent' = Append(sent, Transaction(batch, keypair))
    /\ pc' = "batch_wait"
    /\ UNCHANGED <<walletAddress, options, ledger, accounts, tokensToShow,
                   toProcess, credVars, i, skipRemaining, processAll, totalClosed,
                   totalRecovered, prompts, answers, outcomes, exitCode, risk>>

\* A fault to tell the isolation of a failed batch by: the catch block ends
\* the loop.
batchProcess_Settle_Abort ==
    /\ pc = "batch_wait"
    /\ \E outcome \in Outcomes :
          LET batch == Slice(toProcess, i, i + batchSize)
          IN  /\ outcomes' = Append(outcomes, outcome)
              /\ IF outcome = "confirmed"
                 THEN /\ totalClosed' = totalClosed + Len(batch)
                      /\ totalRecovered' = DoubleAdd(totalRecovered, BatchRentSol(Len(batch)))
                      /\ i' = i + batchSize
                 ELSE /\ UNCHANGED <<totalClosed, totalRecovered>>
                      /\ i' = Len(toProcess)
    /\ pc' = "batch_loop"
    /\ UNCHANGED <<walletAddress, options, ledger, accounts, tokensToShow,
                   toProcess, credVars, skipRemaining, processAll, prompts,
                   answers, sent, exitCode, risk>>

\* A fault to tell the counters by: a batch is counted whatever its outcome.
batchProcess_Settle_CountsFailed ==
    /\ pc = "batch_wait"
    /\ \E outcome \in Outcomes :
          LET batch == Slice(toProcess, i, i + batchSize)
          IN  /\ outcomes' = Append(outcomes, outcome)
              /\ totalClosed' = totalClosed + Len(batch)
              /\ totalRecovered' = DoubleAdd(totalRecovered, BatchRentSol(Len(batch)))
    /\ i' = i + batchSize
    /\ pc' = "batch_loop"
    /\ UNCHANGED <<walletAddress, options, ledger, accounts, tokensToShow,
                   toProcess, credVars, skipRemaining, processAll, prompts,
                   answers, sent, exitCode, risk>>

\* A fault to tell the single attempt by: a batch that failed is tried again.
batchProcess_Settle_Retry ==
    /\ pc = "batch_wait"
    /\ \E outcome \in Outcomes :
          LET batch == Slice(toProcess, i, i + batchSize)
          IN  /\ outcomes' = Append(outcomes, outcome)
              /\ IF outcome = "confirmed"
                 THEN /\ totalClosed' = totalClosed + Len(batch)
                      /\ totalRecovered' = DoubleAdd(totalRecovered, BatchRentSol(Len(batch)))
                      /\ i' = i + batchSize
                 ELSE UNCHANGED <<totalClosed, totalRecovered, i>>
    /\ pc' = "batch_loop"
    /\ UNCHANGED <<walletAddress, options, ledger, accounts, tokensToShow,
                   toProcess, credVars, skipRemaining, processAll, prompts,
                   answers, sent, exitCode, risk>>

\* sendAndConfirmTransaction returns a signature or throws (dust.ts:629-640)
batchProcess_Settle ==
    /\ pc = "batch_wait"
    /\ \E outcome \in Outcomes :
          LET batch == Slice(toProcess, i, i + batchSize)
          IN  /\ outcomes' = Append(outcomes, outcome)
              /\ IF outcome = "confirmed"
                 THEN /\ totalClosed' = totalClosed + Len(batch)
                      /\ totalRecovered' = DoubleAdd(totalRecovered, BatchRentSol(Len(batch)))
                 ELSE UNCHANGED <<totalClosed, totalRecovered>>
    /\ i' = i + batchSize
    /\ pc' = "batch_loop"
    /\ UNCHANGED <<walletAddress, options, ledger, accounts, tokensToShow,
                   toProcess, credVars, skipRemaining, processAll, prompts,
                   answers, sent, exitCode, risk>>

\* the loop is over: the summary (dust.ts:643-646)
batchProcess_Summary ==
    /\ pc = "batch_loop"
    /\ i >= Len(toProcess)
    /\ Exit(0)
    /\ UNCHANGED <<walletAddress, options, ledger, accounts, tokensToShow,
                   toProcess, credVars, runVars, risk>>

(***************************************************************************)
(* interactiveClean (dust.ts:456-584)                                      *)
(***************************************************************************)
\* the transaction of one account is handed over (dust.ts:534-561)
SendOne ==
    /\ sent' = Append(sent, Transaction(<<toProcess[i + 1]>>, keypair))
    /\ pc' = "inter_wait"
    /\ UNCHANGED i

\* the account is not processed: on to the next one (dust.ts:575-576)
SkipOne ==
    /\ i' = i + 1
    /\ pc' = "inter_loop"
    /\ UNCHANGED sent

\* A fault to tell processAll by: the question is asked whatever processAll is.
interactiveClean_Next_AlwaysAsk ==
    /\ pc = "inter_loop"
    /\ i < Len(toProcess)
    /\ IF ~skipRemaining
       THEN /\ prompts' = Append(prompts, i)
            /\ pc' = "inter_ask"
            /\ UNCHANGED <<i, sent>>
       ELSE SkipOne /\ UNCHANGED prompts
    /\ UNCHANGED <<walletAddress, options, ledger, accounts, tokensToShow,
                   toProcess, credVars, skipRemaining, processAll, totalClosed,
                   totalRecovered, answers, outcomes, exitCode, risk>>

\* the head of the loop body for account i (dust.ts:480-511)
\* A fault to tell the quit flag by: the loop asks again after a quit.
interactiveClean_Next_AskAfterQuit ==
    /\ pc = "inter_loop"
    /\ i < Len(toProcess)
    /\ IF processAll THEN SendOne /\ UNCHANGED prompts
       ELSE /\ prompts' = Append(prompts, i)
            /\ pc' = "inter_ask"
            /\ UNCHANGED <<i, sent>>
    /\ UNCHANGED <<walletAddress, options, ledger, accounts, tokensToShow,
                   toProcess, credVars, skipRemaining, processAll, totalClosed,
                   totalRecovered, answers, outcomes, exitCode, risk>>

interactiveClean_Next ==
    /\ pc = "inter_loop"
    /\ i < Len(toProcess)
    /\ IF processAll THEN SendOne /\ UNCHANGED prompts
       ELSE IF ~skipRemaining
       THEN /\ prompts' = Append(prompts, i)
            /\ pc' = "inter_ask"
            /\ UNCHANGED <<i, sent>>
       ELSE SkipOne /\ UNCHANGED prompts
    /\ UNCHANGED <<walletAddress, options, ledger, accounts, tokensToShow,
                   toProcess, credVars, skipRemaining, processAll, totalClosed,
                   totalRecovered, answers, outcomes, exitCode, risk>>

\* A fault to tell the quit case by: the account at which the operator quits
\* is still processed.
interactiveClean_Answer_QuitSends ==
    /\ pc = "inter_ask"
    /\ \E answer \in Answers :
          LET lower == toLowerCase(answer)
          IN  /\ answers' = Append(answers, answer)
              /\ IF lower = "y" \/ lower = "yes"
                 THEN SendOne /\ UNCHANGED <<processAll, skipRemaining>>
                 ELSE IF lower = "a" \/ lower = "all"
                 THEN SendOne /\ processAll' = TRUE /\ UNCHANGED skipRemaining
                 ELSE IF lower = "q" \/ lower = "quit"
                 THEN SendOne /\ skipRemaining' = TRUE /\ UNCHANGED processAll
                 ELSE SkipOne /\ UNCHANGED <<processAll, skipRemaining>>
    /\ UNCHANGED <<walletAddress, options, ledger, accounts, tokensToShow,
                   toProcess, credVars, totalClosed, totalRecovered, prompts,
                   outcomes, exitCode, risk>>

\* A fault to tell the default case by: an answer the switch does not know is
\* taken for a yes.
interactiveClean_Answer_OtherSends ==
    /\ pc = "inter_ask"
    /\ \E answer \in Answers :
          LET lower == toLowerCase(answer)
          IN  /\ answers' = Append(answers, answer)
              /\ IF lower = "a" \/ lower = "all"
                 THEN SendOne /\ processAll' = TRUE /\ UNCHANGED skipRemaining
                 ELSE IF lower = "q" \/ lower = "quit"
                 THEN SkipOne /\ skipRemaining' = TRUE /\ UNCHANGED processAll
                 ELSE SendOne /\ UNCHANGED <<processAll, skipRemaining>>
    /\ UNCHANGED <<walletAddress, options, ledger, accounts, tokensToShow,
                   toProcess, credVars, totalClosed, totalRecovered, prompts,
                   outcomes, exitCode, risk>>

\* the operator's answer and the switch on it (dust.ts:511-534)
interactiveClean_Answer ==
    /\ pc = "inter_ask"
    /\ \E answer \in Answers :
          LET lower == toLowerCase(answer)
          IN  /\ answers' = Append(answers, answer)
              /\ IF lower = "y" \/ lower = "yes"
                 THEN SendOne /\ UNCHANGED <<processAll, skipRemaining>>
                 ELSE IF lower = "a" \/ lower = "all"
                 THEN SendOne /\ processAll' = TRUE /\ UNCHANGED skipRemaining
                 ELSE IF lower = "q" \/ lower = "quit"
                 THEN SkipOne /\ skipRemaining' = TRUE /\ UNCHANGED processAll
                 ELSE SkipOne /\ UNCHANGED <<processAll, skipRemaining>>
    /\ UNCHANGED <<walletAddress, options, ledger, accounts, tokensToShow,
                   toProcess, credVars, totalClosed, totalRecovered, prompts,
                   outcomes, exitCode, risk>>

\* A fault to tell the isolation of a failed submission by: the catch block
\* gives up on the accounts that remain.
interactiveClean_Settle_FailStops ==
    /\ pc = "inter_wait"
    /\ \E outcome \in Outcomes :
          /\ outcomes' = Append(outcomes, outcome)
          /\ IF outcome = "confirmed"
             THEN /\ totalClosed' = totalClosed + 1
                  /\ totalRecovered' = DoubleAdd(totalRecovered, RentSol)
                  /\ UNCHANGED skipRemaining
             ELSE /\ UNCHANGED <<totalClosed, totalRecovered>>
                  /\ skipRemaining' = TRUE
    /\ i' = i + 1
    /\ pc' = "inter_loop"
    /\ UNCHANGED <<walletAddress, options, ledger, accounts, tokensToShow,
                   toProcess, credVars, processAll, prompts,
                   answers, sent, exitCode, risk>>

\* sendAndConfirmTransaction returns a signature or throws (dust.ts:561-576)
interactiveClean_Settle ==
    /\ pc = "inter_wait"
    /\ \E outcome \in Outcomes :
          /\ outcomes' = Append(outcomes, outcome)
          /\ IF outcome = "confirmed"
             THEN /\ totalClosed' = totalClosed + 1
                  /\ totalRecovered' = DoubleAdd(totalRecovered, RentSol)
             ELSE UNCHANGED <<totalClosed, totalRecovered>>
    /\ i' = i + 1
    /\ pc' = "inter_loop"
    /\ UNCHANGED <<walletAddress, options, ledger, accounts, tokensToShow,
                   toProcess, credVars, skipRemaining, processAll, prompts,
                   answers, sent, exitCode, risk>>

\* the loop is over: rl.close() and the summary (dust.ts:578-583)
interactiveClean_Summary ==
    /\ pc = "inter_loop"
    /\ i >= Len(toProcess)
    /\ Exit(0)
    /\ UNCHANGED <<walletAddress, options, ledger, accounts, tokensToShow,
                   toProcess, credVars, runVars, risk>>

(***************************************************************************)
(* The clean command                                                       *)
(***************************************************************************)
CleanOptions ==
    {o \in [keypair : BOOLEAN, yes : BOOLEAN, interactive : BOOLEAN,
            dryRun : BOOLEAN, burn : BOOLEAN, showAll : BOOLEAN] : ~o.showAll}

Init ==
    /\ pc = "clean_query"
    /\ walletAddress \in WalletInputs
    /\ options \in CleanOptions
    /\ Fresh

Next ==
    \/ cleanDust_Query
    \/ cleanDust_Metadata
    \/ cleanDust_Select
    \/ cleanDust_DryRun
    \/ cleanDust_LoadKeypair
    \/ cleanDust_Verify
    \/ cleanDust_Mode
    \/ cleanDust_Confirm
    \/ batchProcess_Send
    \/ batchProcess_Settle
    \/ batchProcess_Summary
    \/ interactiveClean_Next
    \/ interactiveClean_Answer
    \/ interactiveClean_Settle
    \/ interactiveClean_Summary

Spec == Init /\ [][Next]_vars


(***************************************************************************)
(* scanDust (dust.ts:199-307)                                              *)
(***************************************************************************)
\* const riskOrder = { HIGH: 0, MEDIUM: 1, LOW: 2, UNKNOWN: 3 } (dust.ts:240)
riskOrder(level) ==
    CASE level = "HIGH" -> 0 [] level = "MEDIUM" -> 1 [] level = "LOW" -> 2
      [] OTHER -> 3

\* the comparator of dust.ts:241
compareRisk(a, b) == riskOrder(a.riskLevel) - riskOrder(b.riskLevel)

Front(seq) == SubSeq(seq, 1, Len(seq) - 1)
Last(seq) == seq[Len(seq)]

\* A fault to tell stability by: x goes before the elements it compares
\* equal to.
RECURSIVE Insert_BeforeEqual(_, _)
Insert_BeforeEqual(sorted, x) ==
    IF sorted = <<>> THEN <<x>>
    ELSE IF compareRisk(x, Last(sorted)) <= 0
    THEN Append(Insert_BeforeEqual(Front(sorted), x), Last(sorted))
    ELSE Append(sorted, x)

\* x put into a sorted list, after every element that does not compare
\* greater than x
RECURSIVE Insert(_, _)
Insert(sorted, x) ==
    IF sorted = <<>> THEN <<x>>
    ELSE IF compareRisk(x, Last(sorted)) < 0
    THEN Append(Insert(Front(sorted), x), Last(sorted))
    ELSE Append(sorted, x)

\* Array.prototype.sort with compareRisk (dust.ts:241): the sort is stable
\* (ECMAScript 2019), and a stable sort has one result
RECURSIVE sort(_)
sort(accts) ==
    IF accts = <<>> THEN <<>> ELSE Insert(sort(Front(accts)), Last(accts))

IsDust(a) == a.riskLevel = "HIGH" \/ a.riskLevel = "MEDIUM"
DustTokens(accts) == SelectSeq(accts, IsDust)

\* new PublicKey(walletAddress) and the ledger query (dust.ts:203-208); a
\* throw is caught at dust.ts:302 and ends the process with status 1
scanDust_Query ==
    /\ pc = "scan_query"
    /\ IF walletAddress \notin Addresses
       THEN Exit(1) /\ UNCHANGED ledger
       ELSE \E reply \in LedgerReplies(MaxScanAccounts) :
               /\ ledger' = reply
               /\ IF reply.ok THEN pc' = "scan_metadata" /\ UNCHANGED exitCode
                  ELSE Exit(1)
    /\ UNCHANGED <<walletAddress, options, accounts, tokensToShow, toProcess,
                   credVars, runVars, risk>>

\* metadata, classification, the sort and the list shown (dust.ts:210-300)
scanDust_Report ==
    /\ pc = "scan_metadata"
    /\ \E responseOk \in BOOLEAN :
          accounts' = sort(BuildAccounts(ledger.value, responseOk))
    /\ tokensToShow' = IF options.showAll THEN accounts'
                       ELSE DustTokens(accounts') \o Closeable(accounts')
    /\ Exit(0)
    /\ UNCHANGED <<walletAddress, options, ledger, toProcess, credVars, runVars,
                   risk>>

ScanOptions == {[NoOptions EXCEPT !.showAll = b] : b \in BOOLEAN}

InitScan ==
    /\ pc = "scan_query"
    /\ walletAddress \in WalletInputs
    /\ options \in ScanOptions
    /\ Fresh

NextScan ==
    \/ scanDust_Query
    \/ scanDust_Report

SpecScan == InitScan /\ [][NextScan]_vars

(***************************************************************************)
(* The processors on their own: a run of clean at its call of batchProcess *)
(* or interactiveClean (dust.ts:420, 447), for a wallet that holds z empty *)
(* accounts followed by n - z accounts of dust.                            *)
(***************************************************************************)
Holdings(n, z) ==
    [j \in 1..n |-> [pubkey |-> j, kind |-> IF j <= z THEN KindEmpty ELSE KindDust]]

ProcessorEntry(interactive, n, z) ==
    /\ walletAddress = "W1"
    /\ options = [keypair |-> TRUE, yes |-> ~interactive, interactive |-> interactive,
                  dryRun |-> FALSE, burn |-> TRUE, showAll |-> FALSE]
    /\ ledger = [ok |-> TRUE, value |-> Holdings(n, z)]
    /\ accounts = BuildAccounts(Holdings(n, z), TRUE)
    /\ toProcess = ToProcess(BuildAccounts(Holdings(n, z), TRUE), TRUE)
    /\ keyFile = [exists |-> TRUE, encoding |-> "json", publicKey |-> "W1"]
    /\ keypair = [loaded |-> TRUE, publicKey |-> "W1"]
    /\ verified = "match"
    /\ proceed = [asked |-> FALSE, answer |-> ""]
    /\ FreshRun

InitBatch ==
    /\ pc = "batch_loop"
    /\ \E n \in 1..MaxBatchAccounts : \E z \in 0..n : ProcessorEntry(FALSE, n, z)

NextBatch ==
    \/ batchProcess_Send
    \/ batchProcess_Settle
    \/ batchProcess_Summary

SpecBatch == InitBatch /\ [][NextBatch]_vars

InitInteractive ==
    /\ pc = "inter_loop"
    /\ \E n \in 1..MaxInteractive : \E z \in 0..n : ProcessorEntry(TRUE, n, z)

NextInteractive ==
    \/ interactiveClean_Next
    \/ interactiveClean_Answer
    \/ interactiveClean_Settle
    \/ interactiveClean_Summary

SpecInteractive == InitInteractive /\ [][NextInteractive]_vars

(***************************************************************************)
(* classifyTokenRisk on its own, for balances up to the u64 range of a     *)
(* token amount and the decimals a mint can declare.                       *)
(***************************************************************************)
ClassifyBalances ==
    {BigZero, BigOne, BigFromNat(99), BigFromNat(100), BigFromNat(999999),
     BigFromNat(1000000), BigSub(BigPow10(12), BigOne), BigPow10(12),
     BigSub(BigPow10(16), BigOne), BigPow10(16)}

ClassifyDecimals == {0, 2, 6, 9, 16, 20}

ClassifyMetadata ==
    {NoMetadata,
     [present |-> TRUE, name |-> "USD Coin", symbol |-> "USDC"],
     [present |-> TRUE, name |-> "FREE Airdrop", symbol |-> "GIFT"],
     [present |-> TRUE, name |-> "Wrapped SOL", symbol |-> "LUCKY"]}

InitClassify ==
    /\ pc = "classify"
    /\ walletAddress = "W1"
    /\ options = NoOptions
    /\ ledger = [ok |-> FALSE, value |-> <<>>]
    /\ accounts = <<>>
    /\ toProcess = <<>>
    /\ keyFile = NoKeyFile
    /\ keypair = NoKeypair
    /\ verified = "no"
    /\ proceed = [asked |-> FALSE, answer |-> ""]
    /\ i = 0
    /\ skipRemaining = FALSE
    /\ processAll = FALSE
    /\ totalClosed = 0
    /\ totalRecovered = DoubleZero
    /\ prompts = <<>>
    /\ answers = <<>>
    /\ sent = <<>>
    /\ outcomes = <<>>
    /\ exitCode = -1
    /\ tokensToShow = <<>>
    /\ \E balance \in ClassifyBalances, decimals \in ClassifyDecimals,
          metadata \in ClassifyMetadata :
          risk = [NoRisk EXCEPT !.account = [mint |-> "MINT", balance |-> balance,
                                             decimals |-> decimals],
                                !.metadata = metadata]

\* the value returned by the call, next to its arguments
Returned(call, result) ==
    [call EXCEPT !.returned = TRUE, !.level = result.level, !.reason = result.reason]

classifyTokenRisk_Call ==
    /\ pc = "classify"
    /\ risk' = Returned(risk, classifyTokenRisk(risk.account, risk.metadata))
    /\ pc' = "classified"
    /\ UNCHANGED <<walletAddress, options, ledger, accounts, tokensToShow,
                   toProcess, credVars, runVars, exitCode>>

NextClassify == classifyTokenRisk_Call

SpecClassify == InitClassify /\ [][NextClassify]_vars

(***************************************************************************)
(* Properties                                                              *)
(***************************************************************************)
ProcessorPcs == {"clean_mode", "clean_confirm", "batch_loop", "batch_wait",
                 "inter_loop", "inter_ask", "inter_wait"}

\* the transaction interactiveClean builds for the account at index j
SingleTx(j) == Transaction(<<toProcess[j + 1]>>, keypair)

\* ceil(n / batchSize)
NumChunks(n) == (n + batchSize - 1) \div batchSize

\* the number of accounts in the transactions among the first n that confirmed
RECURSIVE ConfirmedSize(_)
ConfirmedSize(n) ==
    IF n = 0 THEN 0
    ELSE ConfirmedSize(n - 1)
         + (IF outcomes[n] = "confirmed" THEN Len(sent[n].accounts) ELSE 0)

\* the accounts of the first n transactions, in order
RECURSIVE SentAccounts(_)
SentAccounts(n) ==
    IF n = 0 THEN <<>> ELSE SentAccounts(n - 1) \o sent[n].accounts

\* C1: in a run of clean, a transaction is built or submitted, and a
\* processor is entered, only after the loaded keypair's public key was
\* compared with the wallet address and found equal; when they differ the
\* process ends with status 1 and nothing was submitted.
C1_IdentityGate ==
    /\ (sent # <<>> \/ pc \in ProcessorPcs)
          => /\ verified = "match"
             /\ keypair.loaded
             /\ keypair.publicKey = walletAddress
    /\ \A k \in 1..Len(sent) : sent[k].signer = walletAddress
    /\ verified = "mismatch" => pc = "exit" /\ exitCode = 1 /\ sent = <<>>

\* a transaction was submitted, after the comparison found the keys equal
C1_Witness ==
    /\ Len(sent) >= 1
    /\ verified = "match"
    /\ keyFile.publicKey = walletAddress
    /\ outcomes = <<"confirmed">>

\* C2: in batchProcess every batch is attempted whatever the outcomes of the
\* batches before it (a transaction has been built for each batch the loop
\* index has passed), and totalClosed is the sum of the sizes of exactly the
\* batches that confirmed; at the summary all ceil(N / 5) batches have been
\* attempted and settled.
C2_BatchIsolation ==
    /\ Len(sent) = i \div batchSize + (IF pc = "batch_wait" THEN 1 ELSE 0)
    /\ Len(outcomes) = i \div batchSize
    /\ totalClosed = ConfirmedSize(Len(outcomes))
    /\ pc = "done" => /\ Len(sent) = NumChunks(Len(toProcess))
                      /\ Len(outcomes) = Len(sent)

\* three batches of 13 accounts, the second failed: the third was attempted
\* and the count is 5 + 3
C2_Witness ==
    /\ pc = "done"
    /\ Len(toProcess) = 13
    /\ outcomes = <<"confirmed", "failed", "confirmed">>
    /\ Len(sent) = 3
    /\ totalClosed = 8

\* the answer as the switch of dust.ts:513 reads it
SwitchedOn(answer) == toLowerCase(answer)

\* the answers the operator may give, by the case of the switch they reach
AllAnswers == {answer \in Answers : SwitchedOn(answer) \in {"a", "all"}}
QuitAnswers == {answer \in Answers : SwitchedOn(answer) \in {"q", "quit"}}
YesAnswers == {answer \in Answers : SwitchedOn(answer) \in {"y", "yes"}}

IsAll(answer) == answer \in AllAnswers
IsQuit(answer) == answer \in QuitAnswers
IsYes(answer) == answer \in YesAnswers
IsOther(answer) == ~IsAll(answer) /\ ~IsQuit(answer) /\ ~IsYes(answer)

\* the number of accounts interactiveClean has submitted or passed over
\* since it asked about the account at index p
HandledSince(p) == (IF pc = "inter_wait" THEN i + 1 ELSE i) - p

\* C3: in interactiveClean, an answer of `all` or `a` at account p is the
\* last answer of the run (nothing is asked about a later account), sets
\* processAll for the rest of the loop, and the account p and every account
\* after it, as far as the loop has come, has been submitted as a transaction
\* of its own, in order; at the summary the loop has come to the last account.
C3_AutoAll ==
    /\ \A k \in 1..Len(answers) :
          IsAll(answers[k]) => /\ k = Len(answers)
                               /\ k = Len(prompts)
                               /\ pc # "inter_ask"
                               /\ processAll
    /\ processAll =>
          /\ Len(answers) >= 1
          /\ IsAll(answers[Len(answers)])
          /\ HandledSince(prompts[Len(prompts)]) >= 1
          /\ Len(sent) >= HandledSince(prompts[Len(prompts)])
          /\ \A t \in 1..HandledSince(prompts[Len(prompts)]) :
                sent[Len(sent) - HandledSince(prompts[Len(prompts)]) + t]
                   = SingleTx(prompts[Len(prompts)] + t - 1)
          /\ pc = "done" => i = Len(toProcess)

\* four accounts and the answers n, y, a: the second, third and fourth are
\* submitted and nothing is asked about the fourth
C3_Witness ==
    /\ pc = "done"
    /\ Len(toProcess) = 4
    /\ answers = <<"n", "y", "a">>
    /\ prompts = <<0, 1, 2>>
    /\ sent = <<SingleTx(1), SingleTx(2), SingleTx(3)>>

\* C4: in interactiveClean, an answer of `quit` or `q` at account i submits
\* nothing for that account and sets skipRemaining; from then on no
\* transaction is submitted, nothing is asked, the counters stay as they
\* were, and every step either passes over the next account or, after the
\* last one, reaches the summary.
C4_Quit ==
    [][ /\ (pc = "inter_ask" /\ IsQuit(answers'[Len(answers')]))
              => /\ sent' = sent
                 /\ skipRemaining'
                 /\ i' = i + 1
                 /\ pc' = "inter_loop"
                 /\ totalClosed' = totalClosed
                 /\ totalRecovered' = totalRecovered
        /\ skipRemaining
              => /\ sent' = sent
                 /\ prompts' = prompts
                 /\ answers' = answers
                 /\ totalClosed' = totalClosed
                 /\ totalRecovered' = totalRecovered
                 /\ skipRemaining'
                 /\ pc = "inter_loop"
                 /\ IF i < Len(toProcess) THEN i' = i + 1 /\ pc' = "inter_loop"
                    ELSE i' = i /\ pc' = "done" /\ exitCode' = 0
      ]_vars

\* four accounts and the answers y, q: the first is submitted, the other
\* three are passed over and the summary is reached
C4_Witness ==
    /\ pc = "done"
    /\ skipRemaining
    /\ Len(toProcess) = 4
    /\ i = 4
    /\ answers = <<"y", "q">>
    /\ sent = <<SingleTx(0)>>
    /\ totalClosed = 1

\* C5: in interactiveClean, while neither processAll nor skipRemaining is
\* set, an answer of `yes` or `y` submits the current account alone in one
\* transaction, an answer that is none of yes, y, all, a, quit, q submits
\* nothing and passes over the current account only, both leave processAll
\* and skipRemaining unset, and the next account is asked about again.
C5_YesAndOther ==
    [][ /\ (pc = "inter_ask" /\ IsYes(answers'[Len(answers')]))
              => /\ sent' = Append(sent, SingleTx(i))
                 /\ i' = i
                 /\ pc' = "inter_wait"
                 /\ ~processAll' /\ ~skipRemaining'
        /\ (pc = "inter_ask" /\ IsOther(answers'[Len(answers')]))
              => /\ sent' = sent
                 /\ i' = i + 1
                 /\ pc' = "inter_loop"
                 /\ ~processAll' /\ ~skipRemaining'
        /\ (pc = "inter_wait" /\ ~processAll /\ ~skipRemaining)
              => /\ i' = i + 1
                 /\ pc' = "inter_loop"
                 /\ ~processAll' /\ ~skipRemaining'
        /\ (pc = "inter_loop" /\ ~processAll /\ ~skipRemaining /\ i < Len(toProcess))
              => /\ prompts' = Append(prompts, i)
                 /\ pc' = "inter_ask"
                 /\ sent' = sent
      ]_vars

\* the first account answered with y, the second with n: one transaction,
\* of the first account alone, and the third account is asked about
C5_Witness ==
    /\ pc = "inter_ask"
    /\ answers = <<"y", "n">>
    /\ prompts = <<0, 1, 2>>
    /\ sent = <<SingleTx(0)>>
    /\ i = 2

\* C6: in interactiveClean, a submission that fails leaves totalClosed and
\* totalRecovered as they were, leaves processAll and skipRemaining as they
\* were, and the loop goes on with the next account; the loop ends only
\* after the last account.
C6_FailedSubmission ==
    [][ /\ (pc = "inter_wait" /\ outcomes'[Len(outcomes')] = "failed")
              => /\ totalClosed' = totalClosed
                 /\ totalRecovered' = totalRecovered
                 /\ processAll' = processAll
                 /\ skipRemaining' = skipRemaining
                 /\ sent' = sent
                 /\ i' = i + 1
                 /\ pc' = "inter_loop"
        /\ pc' = "done" => i >= Len(toProcess)
      ]_vars

\* the first submission failed, the second account was asked about,
\* submitted and counted
C6_Witness ==
    /\ outcomes = <<"failed", "confirmed">>
    /\ answers = <<"y", "y">>
    /\ sent = <<SingleTx(0), SingleTx(1)>>
    /\ totalClosed = 1
    /\ ~processAll /\ ~skipRemaining

\* C7: when cleanDust runs with options.dryRun, whatever the ledger returned
\* and whatever the other options are, no transaction is ever submitted, no
\* keypair file is read and no keypair is loaded, and neither processor is
\* entered.
C7_DryRun ==
    options.dryRun =>
        /\ sent = <<>>
        /\ outcomes = <<>>
        /\ keyFile = NoKeyFile
        /\ ~keypair.loaded
        /\ verified = "no"
        /\ pc \notin ProcessorPcs
        /\ pc \notin {"clean_keypair", "clean_verify"}

\* a dry run with a keypair path and --yes, over a wallet that has accounts
\* to process, has returned
C7_Witness ==
    /\ options.dryRun
    /\ options.keypair
    /\ options.yes
    /\ options.burn
    /\ toProcess # <<>>
    /\ pc = "done"
    /\ exitCode = 0

\* the level that the precedence rules give when they are evaluated on the
\* raw integer balance
ClaimedLevel(account, metadata) ==
    IF metadata.present /\ HasSpamIndicator(toLowerCase(metadata.name),
                                            toLowerCase(metadata.symbol))
    THEN "HIGH"
    ELSE IF /\ account.balance # BigZero
            /\ BigLt(BigMulSmall(account.balance, 10000), BigPow10(account.decimals))
    THEN "HIGH"
    ELSE IF account.balance = BigZero
    THEN "LOW"
    ELSE IF BigLt(account.balance, BigPow10(account.decimals))
    THEN "MEDIUM"
    ELSE "UNKNOWN"

\* C8: classifyTokenRisk returns, for every (rawBalance, decimals, metadata),
\* the level of the first rule that applies: (1) a spam indicator in the
\* lower-cased name or symbol gives HIGH; (2) rawBalance > 0 and
\* rawBalance * 10^4 < 10^decimals gives HIGH; (3) rawBalance = 0 gives LOW;
\* (4) rawBalance < 10^decimals gives MEDIUM; (5) otherwise UNKNOWN.
C8_Precedence ==
    risk.returned => risk.level = ClaimedLevel(risk.account, risk.metadata)

\* the sizes of the chunks submitted so far
ChunkSizes == [k \in 1..Len(sent) |-> Len(sent[k].accounts)]

\* C9: batchProcess submits the N accounts in ceil(N/5) chunks: every chunk
\* but the last has exactly 5 accounts, the last has between 1 and 5, the
\* sizes sum to N, and the chunks one after another are the input list, in
\* its order.
C9_Partition ==
    /\ \A k \in 1..Len(sent) :
          /\ ChunkSizes[k] \in 1..batchSize
          /\ k < NumChunks(Len(toProcess)) => ChunkSizes[k] = batchSize
    /\ Len(sent) <= NumChunks(Len(toProcess))
    /\ Len(SentAccounts(Len(sent))) <= Len(toProcess)
    /\ SentAccounts(Len(sent))
          = SubSeq(Pubkeys(toProcess), 1, Len(SentAccounts(Len(sent))))
    /\ pc = "done" =>
          /\ Len(sent) = NumChunks(Len(toProcess))
          /\ SentAccounts(Len(sent)) = Pubkeys(toProcess)

\* thirteen accounts have gone out in chunks of 5, 5 and 3
C9_Witness ==
    /\ pc = "done"
    /\ Len(toProcess) = 13
    /\ ChunkSizes = <<5, 5, 3>>
    /\ SentAccounts(3) = Pubkeys(toProcess)

\* C10: the list scanDust reports is a permutation of the accounts the
\* ledger query returned, in ascending order of HIGH:0, MEDIUM:1, LOW:2,
\* UNKNOWN:3, and two accounts of the same risk level are in the order the
\* ledger query returned them.
C10_StableSort ==
    pc = "done" =>
        /\ Len(accounts) = Len(ledger.value)
        /\ {accounts[j].pubkey : j \in 1..Len(accounts)} = 1..Len(ledger.value)
        /\ \E responseOk \in BOOLEAN :
              \A j \in 1..Len(accounts) :
                 accounts[j] = BuildAccounts(ledger.value, responseOk)[accounts[j].pubkey]
        /\ \A j \in 1..Len(accounts), k \in 1..Len(accounts) :
              j < k => \/ riskOrder(accounts[j].riskLevel) < riskOrder(accounts[k].riskLevel)
                       \/ /\ accounts[j].riskLevel = accounts[k].riskLevel
                          /\ accounts[j].pubkey < accounts[k].pubkey

\* the ledger returned MEDIUM, HIGH, LOW, HIGH accounts and the report lists
\* the second, the fourth, the first and the third
C10_Witness ==
    /\ pc = "done"
    /\ Len(ledger.value) = 4
    /\ [j \in 1..4 |-> accounts[j].riskLevel] = <<"HIGH", "HIGH", "MEDIUM", "LOW">>
    /\ Pubkeys(accounts) = <<2, 4, 1, 3>>

(***************************************************************************)
(* Either processor on its own: batchProcess or interactiveClean, entered  *)
(* as cleanDust enters it.                                                 *)
(***************************************************************************)
InitProcessors == InitBatch \/ InitInteractive

NextProcessors == NextBatch \/ NextInteractive

SpecProcessors == InitProcessors /\ [][NextProcessors]_vars

\* the holding of toProcess at the address pubkey
HoldingAt(pubkey) == CHOOSE a \in {toProcess[j] : j \in 1..Len(toProcess)} : a.pubkey = pubkey

\* the addresses closed by the instructions ins, in their order
IsClose(instruction) == instruction.op = "close"
ClosedBy(ins) ==
    [j \in 1..Len(SelectSeq(ins, IsClose)) |-> SelectSeq(ins, IsClose)[j].account]

\* the instruction sequence ins of a transaction over the addresses addrs is
\* well formed: burns and closes only, one close per address in the order
\* of the addresses, and a burn exactly in front of the close of an address
\* that holds a balance
WellBuilt(ins, addrs, signer) ==
    /\ \A j \in 1..Len(ins) :
          \/ /\ ins[j].op = "burn"
             /\ BigLt(BigZero, HoldingAt(ins[j].account).balance)
             /\ ins[j].amount = HoldingAt(ins[j].account).balance
             /\ ins[j].mint = HoldingAt(ins[j].account).mint
             /\ ins[j].owner = signer
             /\ j < Len(ins)
             /\ ins[j + 1].op = "close"
             /\ ins[j + 1].account = ins[j].account
          \/ /\ ins[j].op = "close"
             /\ ins[j].destination = signer
             /\ ins[j].owner = signer
             /\ IF HoldingAt(ins[j].account).balance = BigZero
                THEN j > 1 => ins[j - 1].op = "close"
                ELSE /\ j > 1
                     /\ ins[j - 1].op = "burn"
                     /\ ins[j - 1].account = ins[j].account
    /\ ClosedBy(ins) = addrs

\* C11: in both processors, the instructions of every submitted transaction
\* are, holding by holding in the order of the transaction: for a holding
\* with rawBalance > 0 one burn of exactly rawBalance of the holding's mint
\* from the holding's address, immediately followed by the close of that
\* address with the keypair's address as destination and authority; for a
\* holding with rawBalance = 0 the close alone.  No burn is without the
\* close of the same address right behind it.
C11_Instructions ==
    \A k \in 1..Len(sent) :
        WellBuilt(sent[k].instructions, sent[k].accounts, keypair.publicKey)

\* a batch of two empty accounts and one with a balance went out as close,
\* close, burn, close
C11_Witness ==
    /\ Len(sent) = 1
    /\ sent[1].accounts = <<1, 2, 3>>
    /\ [j \in 1..Len(sent[1].instructions) |-> sent[1].instructions[j].op]
          = <<"close", "close", "burn", "close">>
    /\ sent[1].instructions[3].amount = BigOne

\* k reserves in lamports
ReserveLamports(k) == BigFromNat(k * RENT_EXEMPT_LAMPORTS)

\* closedCount * reserve constant as a double, in the two ways it can be
\* written: (k * RENT_EXEMPT_LAMPORTS) / 1e9 and k * (RENT_EXEMPT_LAMPORTS / 1e9)
ReserveProducts ==
    [k \in 0..(MaxBatchAccounts + MaxInteractive) |->
        {DoubleDiv(NumberOf(ReserveLamports(k)), NumberOf(BigPow10(9))),
         IF k = 0 THEN DoubleZero
         ELSE DoubleRound(BigMulSmall(RentSol.m, k), BigShl(BigOne, -RentSol.e))}]

BigAbsDiff(a, b) == IF BigLt(a, b) THEN BigSub(b, a) ELSE BigSub(a, b)

\* the double x is less than one lamport (1e-9) away from k reserves:
\* | m * 2^e * 10^9 - k * RENT_EXEMPT_LAMPORTS | < 1, scaled by 2^-e
WithinLamport(x, k) ==
    IF x.m = <<>> THEN k = 0
    ELSE /\ x.e < 0
         /\ BigLt(BigAbsDiff(BigMulSmall(BigMulSmall(x.m, 31250), 32000),
                             BigShl(ReserveLamports(k), -x.e)),
                  BigShl(BigOne, -x.e))

\* C12 as stated: in every reachable state of both processors
\* totalRecovered = totalClosed * reserve constant, totalClosed is the number
\* of holdings in the transactions that confirmed, and no counter changes on
\* a failed or skipped item.
C12_ExactProduct ==
    /\ totalClosed = ConfirmedSize(Len(outcomes))
    /\ totalRecovered \in ReserveProducts[totalClosed]

C12_State ==
    /\ totalClosed = ConfirmedSize(Len(outcomes))
    /\ WithinLamport(totalRecovered, totalClosed)

\* the term a confirmation adds: (size * RENT_EXEMPT_LAMPORTS) / 1e9 for the
\* transaction that confirmed
C12_Step ==
    IF Len(outcomes') = Len(outcomes) + 1 /\ outcomes'[Len(outcomes')] = "confirmed"
    THEN /\ totalClosed' = totalClosed + Len(sent[Len(outcomes')].accounts)
         /\ totalRecovered'
               = DoubleAdd(totalRecovered, BatchRentSol(Len(sent[Len(outcomes')].accounts)))
    ELSE totalClosed' = totalClosed /\ totalRecovered' = totalRecovered

\* C12, amended: in every reachable state of both processors totalClosed is
\* the number of holdings in the transactions that confirmed, totalRecovered
\* grows by the floating-point term size * reserve constant at each
\* confirmation, is less than one lamport (1e-9 SOL) away from
\* totalClosed * reserve constant without having to be equal to it, and no
\* step other than a confirmation changes either counter.
C12_Counters == []C12_State /\ [][C12_Step]_vars

\* six holdings went out in batches of 5 and 1 and both confirmed: the sum
\* of the two terms is not the product
C12_Witness ==
    /\ pc = "done"
    /\ Len(toProcess) = 6
    /\ outcomes = <<"confirmed", "confirmed">>
    /\ totalClosed = 6
    /\ totalRecovered \notin ReserveProducts[6]
    /\ WithinLamport(totalRecovered, 6)

\* the transactions handed to sendAndConfirmTransaction that have not
\* returned yet
InFlight == Len(sent) - Len(outcomes)

C13_State ==
    /\ InFlight \in {0, 1}
    /\ InFlight = 1 <=> pc \in {"batch_wait", "inter_wait"}

C13_Step ==
    /\ sent' # sent => InFlight = 0 /\ sent' = Append(sent, sent'[Len(sent')])
    /\ prompts' # prompts => InFlight = 0
    /\ InFlight = 1 => /\ Len(outcomes') = Len(outcomes) + 1
                       /\ outcomes'[Len(outcomes')] \in {"confirmed", "failed"}
                       /\ sent' = sent
                       /\ prompts' = prompts
                       /\ answers' = answers

\* C13: in both processors at most one submission is in flight at any time:
\* a transaction is submitted, and in interactiveClean a question is asked,
\* only when every earlier submission has returned its outcome, and while a
\* submission is in flight the only thing that happens is its confirmation
\* or failure.
C13_OneInFlight == []C13_State /\ [][C13_Step]_vars

\* the second batch is in flight after the first one has failed
C13_Witness ==
    /\ pc = "batch_wait"
    /\ Len(sent) = 2
    /\ outcomes = <<"failed">>

\* the holdings interactiveClean has decided to process so far: one for
\* each answer of yes, and from an answer of all on every holding the loop
\* has come to
Decided ==
    Cardinality({k \in 1..Len(answers) : IsYes(answers[k])})
    + (IF processAll THEN HandledSince(prompts[Len(prompts)]) ELSE 0)

\* C14: no transaction is retried.  In both processors no address is in two
\* submitted transactions, whatever the outcomes; batchProcess issues at most
\* one submission per chunk and, at its summary, exactly ceil(N/5) of them;
\* interactiveClean issues exactly as many submissions as there are holdings
\* it decided to process.
C14_NoRetry ==
    /\ Cardinality({SentAccounts(Len(sent))[k] : k \in 1..Len(SentAccounts(Len(sent)))})
          = Len(SentAccounts(Len(sent)))
    /\ ~options.interactive =>
          /\ Len(sent) <= NumChunks(Len(toProcess))
          /\ pc = "done" => Len(sent) = NumChunks(Len(toProcess))
    /\ options.interactive => Len(sent) = Decided

\* thirteen holdings, three batches, every one of them failed, and the
\* summary is reached after three submissions
C14_Witness ==
    /\ pc = "done"
    /\ ~options.interactive
    /\ Len(toProcess) = 13
    /\ outcomes = <<"failed", "failed", "failed">>
    /\ Len(sent) = 3
    /\ totalClosed = 0

\* the fatal errors of a run of clean, read off the state the run ends in
InvalidAddress == walletAddress \notin Addresses
LedgerQueryFailure == walletAddress \in Addresses /\ ~ledger.ok
NeedsCredential == ledger.ok /\ toProcess # <<>> /\ ~options.dryRun
CredentialMissing == NeedsCredential /\ ~options.keypair
CredentialUnreadable ==
    /\ NeedsCredential
    /\ options.keypair
    /\ keyFile # NoKeyFile
    /\ (~keyFile.exists \/ keyFile.encoding \notin {"json", "base58"})
IdentityMismatch == keypair.loaded /\ keypair.publicKey # walletAddress

FatalError ==
    \/ InvalidAddress
    \/ LedgerQueryFailure
    \/ CredentialMissing
    \/ CredentialUnreadable
    \/ IdentityMismatch

\* C15: a run of clean ends with a non-zero status exactly when a fatal
\* error occurred: the wallet address or the ledger query failed, the
\* credential was not given, not found or in neither format, or its identity
\* is not the wallet's.  Every other run ends with status 0: a run with
\* failed submissions, a dry run, an empty selection, and a refusal at the
\* "Proceed with all?" prompt.
C15_ExitStatus ==
    /\ pc \notin {"done", "exit"} => exitCode = -1
    /\ pc = "exit" => exitCode = 1 /\ FatalError
    /\ pc = "done" => exitCode = 0 /\ ~FatalError
    /\ pc \in {"done", "exit"} =>
          /\ sent # <<>> => exitCode = 0
          /\ (ledger.ok /\ (toProcess = <<>> \/ options.dryRun)) => exitCode = 0
          /\ proceed.asked => exitCode = 0

\* both holdings were submitted one by one, both submissions failed, and the
\* run ended with status 0
C15_Witness ==
    /\ pc = "done"
    /\ exitCode = 0
    /\ options.interactive
    /\ outcomes = <<"failed", "failed">>
    /\ totalClosed = 0

\* the file at options.keypair was read and decodes neither as a JSON array
\* nor as a base58 string
InvalidKeypairFormat == keyFile.exists /\ keyFile.encoding \notin {"json", "base58"}

RiskLevels == {"HIGH", "MEDIUM", "LOW", "UNKNOWN"}

\* C16 as stated: a credential file in neither encoding produces the fatal
\* failure, and that failure occurs before any holding has been classified
\* or processed.
C16_BeforeClassification ==
    InvalidKeypairFormat =>
        /\ pc = "exit" /\ exitCode = 1
        /\ accounts = <<>>
        /\ toProcess = <<>>
        /\ sent = <<>>

\* C16, amended: in clean, a credential file that decodes in neither
\* encoding ends the run with the fatal failure (status 1) and no keypair;
\* by then the holdings have been queried, classified and selected, and
\* nothing has been processed: no identity check, no question, no
\* transaction built or submitted.
C16_InvalidFormat ==
    InvalidKeypairFormat =>
        /\ pc = "exit" /\ exitCode = 1
        /\ ~keypair.loaded
        /\ verified = "no"
        /\ ~proceed.asked
        /\ prompts = <<>> /\ answers = <<>>
        /\ sent = <<>> /\ outcomes = <<>>
        /\ totalClosed = 0
        /\ toProcess # <<>>
        /\ \A j \in 1..Len(accounts) : accounts[j].riskLevel \in RiskLevels
        /\ toProcess = ToProcess(accounts, options.burn)

\* the file is in neither encoding and the run has ended, with its two
\* holdings already classified HIGH and LOW
C16_Witness ==
    /\ InvalidKeypairFormat
    /\ pc = "exit"
    /\ Len(accounts) = 2
    /\ accounts[1].riskLevel = "HIGH"
    /\ accounts[2].riskLevel = "LOW"
    /\ Len(toProcess) = 2

\* C17: the holdings that cleanDust hands to the processors are in the
\* scan's sorted order: no holding of a lower-priority risk level (by HIGH,
\* MEDIUM, LOW, UNKNOWN) comes before one of a higher-priority level.
C17_SortedOrder ==
    \A j \in 1..Len(toProcess), k \in 1..Len(toProcess) :
        j < k => riskOrder(toProcess[j].riskLevel) <= riskOrder(toProcess[k].riskLevel)

(***************************************************************************)
(* cleanDust from the reply of the ledger query on, as a dry run and as a  *)
(* live batch run over the same replies: wallets of up to                  *)
(* MaxDryLiveAccounts accounts whose kinds go round LedgerKinds from a     *)
(* starting kind.                                                          *)
(***************************************************************************)
MaxDryLiveAccounts == 7

RoundLedger(n, start) ==
    [j \in 1..n |-> [pubkey |-> j, kind |-> ((j + start) % Len(LedgerKinds)) + 1]]

InitDryLive ==
    /\ pc = "clean_metadata"
    /\ walletAddress = "W1"
    /\ options \in {o \in CleanOptions : ~o.interactive /\ o.keypair}
    /\ \E n \in 1..MaxDryLiveAccounts, start \in 0..(Len(LedgerKinds) - 1) :
          ledger = [ok |-> TRUE, value |-> RoundLedger(n, start)]
    /\ accounts = <<>>
    /\ toProcess = <<>>
    /\ keyFile = NoKeyFile
    /\ keypair = NoKeypair
    /\ verified = "no"
    /\ proceed = [asked |-> FALSE, answer |-> ""]
    /\ FreshRun

NextDryLive ==
    \/ cleanDust_Metadata
    \/ cleanDust_Select
    \/ cleanDust_DryRun
    \/ cleanDust_LoadKeypair
    \/ cleanDust_Verify
    \/ cleanDust_Mode
    \/ cleanDust_Confirm
    \/ batchProcess_Send
    \/ batchProcess_Settle
    \/ batchProcess_Summary

SpecDryLive == InitDryLive /\ [][NextDryLive]_vars

\* the classification and the selection as functions of the ledger reply,
\* the metadata reply and the burn flag, and of nothing else
HasNoBalance(a) == a.balance = BigZero
HasDustBalance(a) == a.balance # BigZero /\ a.riskLevel \in {"HIGH", "MEDIUM"}
SelectionOf(accts, burn) ==
    SelectSeq(accts, HasNoBalance) \o (IF burn THEN SelectSeq(accts, HasDustBalance) ELSE <<>>)

\* the k-th chunk of the partition of seq into chunks of batchSize
ChunkOf(seq, k) ==
    SubSeq(seq, batchSize * (k - 1) + 1, Least(batchSize * k, Len(seq)))

\* C18: a dry run and a live run of clean over the same ledger and metadata
\* replies and the same burn flag have the same classification of every
\* holding and the same sequence of holdings to process: both are functions
\* of the replies and the burn flag alone, whatever dryRun and the other
\* options are.  The chunks a live batch run submits are the partition of
\* that sequence, and the dry run submits nothing.
C18_DryRunEquivalence ==
    /\ pc # "clean_metadata" =>
          \E responseOk \in BOOLEAN : accounts = BuildAccounts(ledger.value, responseOk)
    /\ pc \notin {"clean_metadata", "clean_select"} =>
          toProcess = SelectionOf(accounts, options.burn)
    /\ options.dryRun => sent = <<>> /\ pc \notin ProcessorPcs
    /\ \A k \in 1..Len(sent) : sent[k].accounts = Pubkeys(ChunkOf(toProcess, k))
    /\ (pc = "done" /\ sent # <<>>) => Len(sent) = NumChunks(Len(toProcess))

\* a dry run with --burn over seven accounts has listed the six it would
\* process and has submitted nothing
C18_Witness ==
    /\ options.dryRun
    /\ options.burn
    /\ pc = "done"
    /\ Len(accounts) = 7
    /\ Len(toProcess) = 6
    /\ toProcess[1].riskLevel = "LOW"
    /\ sent = <<>>

(***************************************************************************)
(* scanDust and cleanDust from the reply of the ledger query to the        *)
(* account list and what is made of it, over short ledgers of every kind   *)
(* and, for cleanDust, over ledgers that reach past the MetadataLimit      *)
(* mints of one request: MetadataLimit - 1 or MetadataLimit accounts of    *)
(* dust followed by a tail of spam-named and unlisted mints.  (The account *)
(* list is built the same way by both, dust.ts:210-237 and 331-356.)       *)
(***************************************************************************)
MaxShortAccounts == 2
MaxTailAccounts == 2

Numbered(ks) == [j \in 1..Len(ks) |-> [pubkey |-> j, kind |-> ks[j]]]

ShortLedgers == {Numbered(ks) : ks \in SeqsUpTo(1..Len(LedgerKinds), MaxShortAccounts)}

LongLedgers ==
    {Numbered([j \in 1..n |-> KindDust] \o tail) :
        n \in {MetadataLimit - 1, MetadataLimit},
        tail \in SeqsUpTo({KindSpam, KindUnlisted}, MaxTailAccounts)}

InitMetadata ==
    /\ \/ /\ pc = "scan_metadata"
          /\ options \in ScanOptions
          /\ \E value \in ShortLedgers : ledger = [ok |-> TRUE, value |-> value]
       \/ /\ pc = "clean_metadata"
          /\ options \in {o \in CleanOptions : o.dryRun /\ ~o.keypair /\ ~o.yes /\ ~o.interactive}
          /\ \E value \in ShortLedgers \cup LongLedgers : ledger = [ok |-> TRUE, value |-> value]
    /\ walletAddress = "W1"
    /\ accounts = <<>>
    /\ toProcess = <<>>
    /\ keyFile = NoKeyFile
    /\ keypair = NoKeypair
    /\ verified = "no"
    /\ proceed = [asked |-> FALSE, answer |-> ""]
    /\ FreshRun

NextMetadata ==
    \/ scanDust_Report
    \/ cleanDust_Metadata
    \/ cleanDust_Select
    \/ cleanDust_DryRun

SpecMetadata == InitMetadata /\ [][NextMetadata]_vars

\* the metadata service was reached and returned an item for the mint of
\* the account at address pubkey: the mint is among the first MetadataLimit
\* of the ledger reply and the service lists it
Resolved(pubkey, responseOk) ==
    /\ responseOk
    /\ LedgerKinds[ledger.value[pubkey].kind].mint \in DOMAIN ServiceItems
    /\ \E j \in 1..Least(MetadataLimit, Len(ledger.value)) :
          LedgerKinds[ledger.value[j].kind].mint = LedgerKinds[ledger.value[pubkey].kind].mint

\* the account a is the holding the ledger returned at its address, and if
\* no metadata was resolved for it, it carries none and has the level that
\* the rules on the balance give, never the one of the spam rule
Degraded(a, responseOk) ==
    /\ a.mint = LedgerKinds[ledger.value[a.pubkey].kind].mint
    /\ a.balance = LedgerKinds[ledger.value[a.pubkey].kind].amount
    /\ a.metadata.present <=> Resolved(a.pubkey, responseOk)
    /\ ~Resolved(a.pubkey, responseOk) =>
          /\ a.metadata = NoMetadata
          /\ a.riskLevel = RiskOf(ledger.value[a.pubkey].kind, FALSE).level
          /\ a.riskReason # "Suspicious name (potential scam/airdrop)"
          /\ a.riskLevel = "HIGH" => BigLt(BigZero, a.balance)
          /\ a.riskLevel = "LOW" <=> a.balance = BigZero

\* C19: a metadata lookup that fails, a mint past the first MetadataLimit of
\* the request and a mint the reply has no item for never end scanDust or
\* cleanDust: every account the ledger returned is in the account list,
\* those without resolved metadata carry none and are classified by the
\* rules on the balance alone.
C19_MetadataDegrades ==
    /\ pc # "exit" /\ exitCode \in {-1, 0}
    /\ pc \notin {"scan_metadata", "clean_metadata"} =>
          /\ Len(accounts) = Len(ledger.value)
          /\ {accounts[j].pubkey : j \in 1..Len(accounts)} = 1..Len(ledger.value)
          /\ \E responseOk \in BOOLEAN :
                \A j \in 1..Len(accounts) : Degraded(accounts[j], responseOk)

\* the service answered for a ledger of 102 accounts: the first hundred
\* have their metadata, the spam-named mint at place 101 was not asked for
\* and is LOW, the unlisted mint at place 102 is MEDIUM
C19_Witness ==
    /\ pc = "done"
    /\ Len(accounts) = MetadataLimit + 2
    /\ accounts[1].metadata.present
    /\ accounts[MetadataLimit + 1].mint = "FREE"
    /\ ~accounts[MetadataLimit + 1].metadata.present
    /\ accounts[MetadataLimit + 1].riskLevel = "LOW"
    /\ accounts[MetadataLimit + 2].mint = "NEW"
    /\ accounts[MetadataLimit + 2].riskLevel = "MEDIUM"

\* the accounts of the account list that instruction ins is built for
BuiltFor(ins) == {a \in {accounts[j] : j \in 1..Len(accounts)} : a.pubkey = ins.account}

\* every instruction of every submitted transaction
Built == {sent[k].instructions[j] : <<k, j>> \in
             {kj \in (1..Len(sent)) \X (1..(2 * batchSize)) :
                 kj[2] <= Len(sent[kj[1]].instructions)}}

\* C20: in clean, a burn instruction is built for a holding only if the
\* burn flag was given, the holding's rawBalance is greater than 0 and its
\* risk level is HIGH or MEDIUM; without the burn flag every processed
\* holding has rawBalance 0 and no burn is built; a holding with a balance
\* classified UNKNOWN is never selected, burned or closed.
C20_BurnGuard ==
    /\ \A ins \in Built :
          /\ BuiltFor(ins) # {}
          /\ \A a \in BuiltFor(ins) :
                /\ ins.op = "burn" =>
                      /\ options.burn
                      /\ BigLt(BigZero, a.balance)
                      /\ a.riskLevel \in {"HIGH", "MEDIUM"}
                /\ ~(a.riskLevel = "UNKNOWN" /\ a.balance # BigZero)
    /\ \A j \in 1..Len(toProcess) :
          /\ ~options.burn => toProcess[j].balance = BigZero
          /\ ~(toProcess[j].riskLevel = "UNKNOWN" /\ toProcess[j].balance # BigZero)
          /\ toProcess[j].balance # BigZero => toProcess[j].riskLevel \in {"HIGH", "MEDIUM"}
    /\ ~options.burn => \A ins \in Built : ins.op = "close"

\* with the burn flag, a MEDIUM holding with a balance was burned and
\* closed while the UNKNOWN holding with a balance next to it was left out
C20_Witness ==
    /\ options.burn
    /\ Len(accounts) = 2
    /\ accounts[1].riskLevel = "MEDIUM" /\ accounts[1].balance # BigZero
    /\ accounts[2].riskLevel = "UNKNOWN" /\ accounts[2].balance # BigZero
    /\ Len(sent) = 1
    /\ sent[1].accounts = <<accounts[1].pubkey>>
    /\ [j \in 1..Len(sent[1].instructions) |-> sent[1].instructions[j].op] = <<"burn", "close">>
    /\ pc = "done"

\* the places in the sequence of answers of an `all` or a `quit`
EndingAnswers == {p \in 1..Len(answers) : answers[p] \in AllAnswers \cup QuitAnswers}

\* processAll and skipRemaining are never both true, one of them is true
\* exactly when an `all` or `quit` was answered, and then that answer is the
\* last one and its prompt, for the account of index prompts[p], the last
\* prompt: there are p prompts, no more than that account's place p' + 1
C21_State ==
    /\ ~(processAll /\ skipRemaining)
    /\ (processAll \/ skipRemaining) <=> EndingAnswers # {}
    /\ \A p \in EndingAnswers :
          /\ p = Len(answers)
          /\ Len(prompts) = p
          /\ Len(prompts) <= prompts[p] + 1
          /\ processAll <=> answers[p] \in AllAnswers
          /\ skipRemaining <=> answers[p] \in QuitAnswers

\* a flag that is true stays true, and nothing is asked from then on
C21_Step ==
    /\ processAll => processAll'
    /\ skipRemaining => skipRemaining'
    /\ (processAll \/ skipRemaining) => prompts' = prompts /\ answers' = answers

\* C21: in interactiveClean, processAll and skipRemaining are never both
\* true; once either is true it is never reset and no further prompt is
\* issued, so the number of prompts is at most the index of the first `all`
\* or `quit` answer.
C21_Flags == []C21_State /\ [][C21_Step]_vars

\* `all` at the second of four accounts: two prompts, and all four handled
C21_Witness ==
    /\ pc = "done"
    /\ Len(toProcess) = 4
    /\ prompts = <<0, 1>>
    /\ Len(answers) = 2
    /\ answers[2] \in AllAnswers
    /\ processAll /\ ~skipRemaining
    /\ Len(sent) = 3

\* the places of the address pubkey in the sequence of addresses addrs
PlacesOf(pubkey, addrs) == {j \in 1..Len(addrs) : addrs[j] = pubkey}

\* the submitted transactions that close the address pubkey
ClosingTransactions(pubkey) ==
    {k \in 1..Len(sent) : PlacesOf(pubkey, ClosedBy(sent[k].instructions)) # {}}

\* C22: the list clean selects for processing is the zero-balance holdings
\* followed by the burnable ones with a balance; it contains every
\* zero-balance holding whatever its risk level and no holding twice, and
\* no holding's address is in more than one submitted transaction, or
\* twice in one.
C22_NoDuplicates ==
    pc \notin {"clean_metadata", "clean_select"} =>
        /\ \A j \in 1..Len(accounts) :
              /\ Cardinality(PlacesOf(accounts[j].pubkey, Pubkeys(toProcess))) <= 1
              /\ accounts[j].balance = BigZero =>
                    PlacesOf(accounts[j].pubkey, Pubkeys(toProcess)) # {}
              /\ Cardinality(ClosingTransactions(accounts[j].pubkey)) <= 1
              /\ \A k \in 1..Len(sent) :
                    /\ Cardinality(PlacesOf(accounts[j].pubkey, sent[k].accounts)) <= 1
                    /\ Cardinality(PlacesOf(accounts[j].pubkey,
                                            ClosedBy(sent[k].instructions))) <= 1
        /\ \A j \in 1..Len(toProcess) :
              /\ \E l \in 1..Len(accounts) : accounts[l] = toProcess[j]
              /\ j > 1 /\ toProcess[j].balance = BigZero => toProcess[j - 1].balance = BigZero

\* six of seven holdings were selected, among them an empty one that its
\* name makes HIGH, and went out in two transactions of five and one
C22_Witness ==
    /\ pc = "done"
    /\ options.burn
    /\ Len(accounts) = 7
    /\ Len(toProcess) = 6
    /\ \E j \in 1..Len(toProcess) :
          toProcess[j].balance = BigZero /\ toProcess[j].riskLevel = "HIGH"
    /\ Len(sent) = 2
    /\ Len(sent[1].accounts) = 5
    /\ Len(sent[2].accounts) = 1

\* the answers that are "y" once lower-cased
Affirmative == {"y", "Y"}

\* the batch processor has been entered
InBatch == pc \in {"batch_loop", "batch_wait"} \/ sent # <<>>

\* C23: in non-interactive clean without the yes flag, the batch processor
\* is entered and transactions are submitted only after the confirmation
\* prompt was answered with "y" or "Y"; after any other answer (the empty
\* one and "yes" among them) the run is over, with status 0 and nothing
\* submitted.  The prompt is not issued in the other modes.
C23_Confirmation ==
    /\ ~options.interactive /\ ~options.yes =>
          /\ InBatch => proceed.asked /\ proceed.answer \in Affirmative
          /\ proceed.asked /\ proceed.answer \notin Affirmative =>
                /\ pc = "done"
                /\ exitCode = 0
                /\ sent = <<>>
                /\ outcomes = <<>>
                /\ totalClosed = 0
          /\ proceed.asked /\ proceed.answer \in Affirmative => pc # "clean_confirm"
    /\ options.interactive \/ options.yes \/ options.dryRun => ~proceed.asked

\* the operator answered "Y" and the two holdings went out in one batch
C23_Witness ==
    /\ ~options.interactive /\ ~options.yes
    /\ proceed.asked
    /\ proceed.answer = "Y"
    /\ Len(toProcess) = 2
    /\ Len(sent) = 1
    /\ outcomes = <<"confirmed">>
    /\ pc = "done"

\* C24: in scan without the show-all flag, the displayed list contains
\* exactly the holdings that are HIGH, MEDIUM or closeable, each of them
\* exactly once, a zero-balance holding that its name makes HIGH included.
C24_ShownOnce ==
    pc = "done" /\ ~options.showAll =>
        /\ \A j \in 1..Len(accounts) :
              Cardinality(PlacesOf(accounts[j].pubkey, Pubkeys(tokensToShow)))
                 = IF IsDust(accounts[j]) \/ accounts[j].isCloseable THEN 1 ELSE 0
        /\ \A j \in 1..Len(tokensToShow) :
              \E l \in 1..Len(accounts) : accounts[l] = tokensToShow[j]

====
